---- MODULE Spec2Model ----
(***************************************************************************)
(* Model of CloudTrendMonitor (src/monitor.py): the scrape / detect /      *)
(* save / sleep loop of run_forever and the classifier state                *)
(* previous_trends.                                                         *)
(*                                                                          *)
(* A token is a natural number: token k stands for the k-th distinct word   *)
(* of the vocabulary (1 = "alpha", 2 = "beta", ...).  A response of the     *)
(* source is represented by the token list that clean_text yields for its   *)
(* posts, in order.  change (a Python float) is the exact rational          *)
(* num/den in lowest terms.  A timestamp is the reading of the clock when   *)
(* save_data runs: the number of the cycle in the loop, seconds where the   *)
(* dashboard (src/app.py) looks at the age of the rows.                      *)
(*                                                                          *)
(* feed fixes, for a run, which responses the two subreddits can give: the  *)
(* narrow feed has short posts about alpha and beta, the wide feed a        *)
(* response with more distinct words than previous_trends may hold.         *)
(***************************************************************************)
EXTENDS Naturals, Integers, Sequences, FiniteSets, TLC

VARIABLES
    feed,             \* what the source serves during this run
    pc,               \* position of run_forever
    idx,              \* index of the subreddit the scrape loop is at
    all_words,        \* scrape_reddit's local accumulator
    words,            \* run_cycle's local: the result of scrape_reddit
    trends,           \* run_cycle's local: the result of detect_trends
    previous_trends,  \* self.previous_trends
    tx_trends,        \* rows inserted into trends, not yet committed
    tx_alerts,        \* rows inserted into alerts, not yet committed
    db_trends,        \* committed rows of table trends
    db_alerts,        \* committed rows of table alerts
    cycle,            \* number of cycles started (the clock)
    start_prev,       \* history: previous_trends when the cycle started
    start_rows,       \* history: committed row counts when the cycle started
    ok_tokens,        \* history: tokens of the successful fetches of the cycle
    attempts,         \* history: outcome of each fetch of the cycle
    base_words,       \* history: words of the last cycle that ran detect_trends
    saved_words,      \* history: words of the last cycle that was committed
    text,             \* clean_text: the argument
    cleaned,          \* clean_text: the list returned
    tpc,              \* clean_text: "idle", "call" or "return"
    now,              \* dashboard: the time of the request, in seconds
    timeframe,        \* dashboard: the timeframe of the route /api/trends
    result,           \* dashboard: the rows get_recent_trends returned
    stats,            \* dashboard: the counts get_stats has read
    rpc               \* dashboard: position of the request handler

vars == <<feed, pc, idx, all_words, words, trends, previous_trends, tx_trends,
          tx_alerts, db_trends, db_alerts, cycle, start_prev, start_rows,
          ok_tokens, attempts, base_words, saved_words,
          text, cleaned, tpc, now, timeframe, result, stats, rpc>>

tokenizer == <<text, cleaned, tpc>>

dashboard == <<now, timeframe, result, stats, rpc>>

----------------------------------------------------------------------------
(* Program constants *)

NumSubs     == 2     \* subreddits[:2]
TopAlert    == 30    \* most_common(30)
TopState    == 100   \* most_common(100)
MinCount    == 2     \* count >= 2
NewMin      == 3     \* count >= 3
SpikePct    == 50    \* change_percent >= 50
StatusOK    == 200   \* response.status_code == 200
StatusBusy  == 503   \* a non-success status
LongSleep   == 600   \* time.sleep(600)
ShortSleep  == 60    \* time.sleep(60)
MinLength   == 4     \* len(w) >= 4
Limit       == 20    \* LIMIT 20
TenMinutes  == 17    \* '10min': 0.17, in hundredths of an hour
OneHour     == 100   \* '1hour': 1
SixHours    == 600   \* '6hour': 6
FullDay     == 2400  \* '24hour': 24
DaySeconds  == 86400 \* '-24 hours'

(* Bounds of the model *)

MaxCycles   == 3     \* cycles run_forever starts
WideTokens  == 102   \* distinct tokens of the wide response
HeavyFrom   == 60    \* first token of the wide response that occurs 3 times
MaxPieces   == 4     \* pieces a text given to clean_text is made of
MaxSpecial  == 3     \* special pieces a text given to clean_text is made of
Spare       == 3     \* distinct tokens of the crowded response beyond Limit

----------------------------------------------------------------------------
(* Sequences *)

Run(a, b) == [i \in 1..(b + 1 - a) |-> a + i - 1]

Rep(w, n) == [i \in 1..n |-> w]

Range(s) == {s[i] : i \in DOMAIN s}

Min(a, b) == IF a <= b THEN a ELSE b

RECURSIVE GCD(_, _)
GCD(a, b) == IF b = 0 THEN a ELSE GCD(b, a % b)

(* The counts of get_stats before any of them is read *)
NoStats == [total_trends |-> 0, unique_words |-> 0, alerts_today |-> 0]

(* The token lists the source can answer with *)
Alpha2 == Rep(1, 2)
Alpha3 == Rep(1, 3)
Beta3  == Rep(2, 3)
Wide   == Run(1, WideTokens) \o Run(HeavyFrom, WideTokens)
                             \o Run(HeavyFrom, WideTokens)

(* The responses subreddit number sub can give under a feed *)
Docs(f, sub) ==
    IF f = "wide" THEN (IF sub = 1 THEN {Wide} ELSE {Alpha3})
    ELSE (IF sub = 1 THEN {Alpha3, Beta3, << >>} ELSE {Alpha2, Alpha3, << >>})

----------------------------------------------------------------------------
(* collections.Counter: a dict keeps its keys in insertion order, so a     *)
(* Counter is the list of its (word, count) pairs in first-seen order.      *)

(* list(s): the sequence s as an explicit tuple *)
list(s) == s \o << >>

(* The positions at which a word is seen for the first time, ascending *)
FirstSeen(ws) ==
    SelectSeq([i \in DOMAIN ws |-> i],
              LAMBDA i : \A j \in 1..(i - 1) : ws[j] # ws[i])

Counter(ws) ==
    LET first == FirstSeen(ws)
    IN  list([k \in DOMAIN first |->
                <<ws[first[k]],
                  Cardinality({j \in DOMAIN ws : ws[j] = ws[first[k]]})>>])

(* word_counts.items() *)
items(ws) == Counter(ws)

(* Faulty variant: among pairs of equal count the later one comes first *)
SortedTiesReversed(c) ==
    LET ahead == list([i \in DOMAIN c |->
                    Cardinality({j \in DOMAIN c :
                        \/ c[j][2] > c[i][2]
                        \/ c[j][2] = c[i][2] /\ j > i})])
    IN  list([r \in DOMAIN c |->
                c[CHOOSE i \in DOMAIN c : ahead[i] = r - 1]])

(* sorted(pairs, key = count, reverse = True) is stable: pair i comes      *)
(* behind the pairs of higher count and the earlier pairs of equal count.   *)
Sorted(c) ==
    LET ahead == list([i \in DOMAIN c |->
                    Cardinality({j \in DOMAIN c :
                        \/ c[j][2] > c[i][2]
                        \/ c[j][2] = c[i][2] /\ j < i})])
    IN  list([r \in DOMAIN c |->
                c[CHOOSE i \in DOMAIN c : ahead[i] = r - 1]])

(* Faulty variant: the ranking is not cut *)
most_common_uncut(ws, n) == Sorted(Counter(ws))

(* Counter(ws).most_common(n): the n first (word, count) pairs *)
most_common(ws, n) ==
    LET sorted == Sorted(Counter(ws))
    IN  SubSeq(sorted, 1, Min(n, Len(sorted)))

(* dict(pairs) *)
dict(pairs) ==
    [w \in {pairs[i][1] : i \in DOMAIN pairs} |->
        LET i == CHOOSE j \in DOMAIN pairs : pairs[j][1] = w
        IN  pairs[i][2]]

(* d.get(w, 0) *)
get(d, w) == IF w \in DOMAIN d THEN d[w] ELSE 0

----------------------------------------------------------------------------
(* detect_trends *)

(* change_percent = ((count - previous_count) / previous_count) * 100 *)
change_percent(count, previous_count) ==
    LET n == (count - previous_count) * 100
        g == GCD(IF n < 0 THEN 0 - n ELSE n, previous_count)
    IN  [num |-> n \div g, den |-> previous_count \div g]

(* Faulty variant: any increase counts as a spike *)
AtLeastAnyIncrease(change, pct) == change.num > 0

(* change_percent >= 50 *)
AtLeast(change, pct) == change.num >= pct * change.den

Zero == [num |-> 0, den |-> 1]

(* Faulty variant: a word unknown to the baseline is new from the minimum count on *)
AlertsForNewAtMinCount(prev, word, count) ==
    LET previous_count == get(prev, word)
    IN  IF count >= MinCount
        THEN IF previous_count = 0
             THEN << [word |-> word, count |-> count,
                      type |-> "new", change |-> Zero] >>
             ELSE IF AtLeast(change_percent(count, previous_count), SpikePct)
                  THEN << [word |-> word, count |-> count, type |-> "spike",
                           change |-> change_percent(count, previous_count)] >>
                  ELSE << >>
        ELSE << >>

(* The body of the loop over most_common(30): the alerts appended for one  *)
(* (word, count) pair, given the baseline prev.                             *)
AlertsFor(prev, word, count) ==
    LET previous_count == get(prev, word)
    IN  IF count >= MinCount
        THEN IF previous_count = 0 /\ count >= NewMin
             THEN << [word |-> word, count |-> count,
                      type |-> "new", change |-> Zero] >>
             ELSE IF previous_count > 0
                       /\ AtLeast(change_percent(count, previous_count), SpikePct)
                  THEN << [word |-> word, count |-> count, type |-> "spike",
                           change |-> change_percent(count, previous_count)] >>
                  ELSE << >>
        ELSE << >>

RECURSIVE Collect(_, _, _)
Collect(prev, pairs, i) ==
    IF i > Len(pairs) THEN << >>
    ELSE AlertsFor(prev, pairs[i][1], pairs[i][2]) \o Collect(prev, pairs, i + 1)

(* The list detect_trends returns *)
DetectAlerts(prev, current_words) ==
    IF current_words = << >> THEN << >>
    ELSE Collect(prev, most_common(current_words, TopAlert), 1)

(* Faulty variant: the baseline is taken from the list that was classified *)
DetectStateTopAlert(prev, current_words) ==
    IF current_words = << >> THEN prev
    ELSE dict(most_common(current_words, TopAlert))

(* Faulty variant: the new counts are merged into the old baseline *)
DetectStateMerged(prev, current_words) ==
    IF current_words = << >> THEN prev
    ELSE dict(most_common(current_words, TopState)) @@ prev

(* self.previous_trends after detect_trends *)
DetectState(prev, current_words) ==
    IF current_words = << >> THEN prev
    ELSE dict(most_common(current_words, TopState))

----------------------------------------------------------------------------
(* save_data *)

(* Faulty variant: only the classified part of the table is written *)
TrendRowsClassified(ws, timestamp) ==
    LET word_counts == most_common(ws, TopAlert)
    IN  [i \in 1..Len(word_counts) |->
            [word |-> word_counts[i][1], count |-> word_counts[i][2],
             source |-> "reddit", timestamp |-> timestamp]]

TrendRows(ws, timestamp) ==
    LET word_counts == items(ws)
    IN  [i \in 1..Len(word_counts) |->
            [word |-> word_counts[i][1], count |-> word_counts[i][2],
             source |-> "reddit", timestamp |-> timestamp]]

(* Faulty variant: the alert rows get a timestamp of their own *)
AlertRowsOwnClock(ts, timestamp) ==
    [i \in 1..Len(ts) |->
        [word |-> ts[i].word, count |-> ts[i].count,
         change_percent |-> ts[i].change, alert_type |-> ts[i].type,
         timestamp |-> timestamp + 1]]

AlertRows(ts, timestamp) ==
    [i \in 1..Len(ts) |->
        [word |-> ts[i].word, count |-> ts[i].count,
         change_percent |-> ts[i].change, alert_type |-> ts[i].type,
         timestamp |-> timestamp]]

----------------------------------------------------------------------------
(* scrape_reddit *)

(* Faulty variant: the status of the response is not looked at *)
ResponseWordsAnyStatus(status_code, tokens) == tokens

(* What one response adds to all_words *)
ResponseWords(status_code, tokens) ==
    IF status_code = StatusOK THEN tokens ELSE << >>

(* Faulty variant: the handler sleeps as long as a finished cycle does *)
CaughtSleepsLong(exc, at) ==
    IF at \in {"loop", "sleep60"} THEN "killed"
    ELSE IF exc = "KeyboardInterrupt" THEN "stopped"
    ELSE "sleep600"

(* Faulty variant: run_forever has no "except Exception" clause *)
CaughtOnlyInterrupt(exc, at) ==
    IF exc = "KeyboardInterrupt" /\ at \notin {"loop", "sleep60"}
    THEN "stopped" ELSE "killed"

(* run_forever's handlers: where an exception exc leaves the loop when it  *)
(* is raised at position at.  The try block covers run_cycle and the long   *)
(* sleep.  The first logger.info, "while True:" and "try:" (position        *)
(* "loop") are outside it, and the short sleep is inside the "except        *)
(* Exception" handler: an exception raised there leaves run_forever         *)
(* uncaught.                                                                *)
Caught(exc, at) ==
    IF at \in {"loop", "sleep60"} THEN "killed"
    ELSE IF exc = "KeyboardInterrupt" THEN "stopped"
    ELSE "sleep60"

(* The seconds run_forever sleeps at position at *)
SleepSeconds(at) ==
    IF at = "sleep600" THEN LongSleep
    ELSE IF at = "sleep60" THEN ShortSleep
    ELSE 0

(* Faulty variant: an empty word list does not end the cycle *)
NoWordsNever(ws) == FALSE

(* run_cycle: "if not words: return" *)
NoWords(ws) == ws = << >>

----------------------------------------------------------------------------
(* clean_text.  A character is its Unicode code point (Python's ord), a   *)
(* text is a sequence of characters and so is a token.  The classes of     *)
(* characters are those of the interpreter (Python 3.11, Unicode 14.0).    *)

(* The characters U+0020 to U+005F and U+0061 to U+007E, in order *)
Printable == " !\"#$%&'()*+,-./0123456789:;<=>?@ABCDEFGHIJKLMNOPQRSTUVWXYZ[\\]^_"

PrintableLower == "abcdefghijklmnopqrstuvwxyz{|}~"

(* ord(c) of a character written as a string of length 1 *)
ord(c) ==
    IF \E k \in 1..Len(Printable) : SubSeq(Printable, k, k) = c
    THEN 31 + CHOOSE k \in 1..Len(Printable) : SubSeq(Printable, k, k) = c
    ELSE 96 + CHOOSE k \in 1..Len(PrintableLower) :
                  SubSeq(PrintableLower, k, k) = c

(* The text written as the string w *)
codes(w) == list([i \in 1..Len(w) |-> ord(SubSeq(w, i, i))])

(* A missing text: text is None.  -1 is no character. *)
None == <<-1>>

(* A range of this many characters or more is long *)
LongRange == 256

(* The characters of the ranges rs, each range its first and last: the     *)
(* short ranges as an enumerated set, the long ones as intervals            *)
CharsOf(rs) ==
    LET long == {r \in rs : r[2] - r[1] + 1 >= LongRange}
    IN  {c : c \in UNION {r[1]..r[2] : r \in rs \ long}}
            \cup UNION {r[1]..r[2] : r \in long}

(* [a-z] and [a-zA-Z] *)
Lowercase == ord("a")..ord("z")

Letters == (ord("A")..ord("Z")) \cup Lowercase

(* \w: the characters str.isalnum() takes, and the underscore *)
WordRanges ==
    {<<48, 57>>, <<65, 90>>, <<95, 95>>, <<97, 122>>, <<170, 170>>,
     <<178, 179>>, <<181, 181>>, <<185, 186>>, <<188, 190>>, <<192, 214>>,
     <<216, 246>>, <<248, 705>>, <<710, 721>>, <<736, 740>>, <<748, 748>>,
     <<750, 750>>, <<880, 884>>, <<886, 887>>, <<890, 893>>, <<895, 895>>,
     <<902, 902>>, <<904, 906>>, <<908, 908>>, <<910, 929>>, <<931, 1013>>,
     <<1015, 1153>>, <<1162, 1327>>, <<1329, 1366>>, <<1369, 1369>>,
     <<1376, 1416>>, <<1488, 1514>>, <<1519, 1522>>, <<1568, 1610>>,
     <<1632, 1641>>, <<1646, 1647>>, <<1649, 1747>>, <<1749, 1749>>,
     <<1765, 1766>>, <<1774, 1788>>, <<1791, 1791>>, <<1808, 1808>>,
     <<1810, 1839>>, <<1869, 1957>>, <<1969, 1969>>, <<1984, 2026>>,
     <<2036, 2037>>, <<2042, 2042>>, <<2048, 2069>>, <<2074, 2074>>,
     <<2084, 2084>>, <<2088, 2088>>, <<2112, 2136>>, <<2144, 2154>>,
     <<2160, 2183>>, <<2185, 2190>>, <<2208, 2249>>, <<2308, 2361>>,
     <<2365, 2365>>, <<2384, 2384>>, <<2392, 2401>>, <<2406, 2415>>,
     <<2417, 2432>>, <<2437, 2444>>, <<2447, 2448>>, <<2451, 2472>>,
     <<2474, 2480>>, <<2482, 2482>>, <<2486, 2489>>, <<2493, 2493>>,
     <<2510, 2510>>, <<2524, 2525>>, <<2527, 2529>>, <<2534, 2545>>,
     <<2548, 2553>>, <<2556, 2556>>, <<2565, 2570>>, <<2575, 2576>>,
     <<2579, 2600>>, <<2602, 2608>>, <<2610, 2611>>, <<2613, 2614>>,
     <<2616, 2617>>, <<2649, 2652>>, <<2654, 2654>>, <<2662, 2671>>,
     <<2674, 2676>>, <<2693, 2701>>, <<2703, 2705>>, <<2707, 2728>>,
     <<2730, 2736>>, <<2738, 2739>>, <<2741, 2745>>, <<2749, 2749>>,
     <<2768, 2768>>, <<2784, 2785>>, <<2790, 2799>>, <<2809, 2809>>,
     <<2821, 2828>>, <<2831, 2832>>, <<2835, 2856>>, <<2858, 2864>>,
     <<2866, 2867>>, <<2869, 2873>>, <<2877, 2877>>, <<2908, 2909>>,
     <<2911, 2913>>, <<2918, 2927>>, <<2929, 2935>>, <<2947, 2947>>,
     <<2949, 2954>>, <<2958, 2960>>, <<2962, 2965>>, <<2969, 2970>>,
     <<2972, 2972>>, <<2974, 2975>>, <<2979, 2980>>, <<2984, 2986>>,
     <<2990, 3001>>, <<3024, 3024>>, <<3046, 3058>>, <<3077, 3084>>,
     <<3086, 3088>>, <<3090, 3112>>, <<3114, 3129>>, <<3133, 3133>>,
     <<3160, 3162>>, <<3165, 3165>>, <<3168, 3169>>, <<3174, 3183>>,
     <<3192, 3198>>, <<3200, 3200>>, <<3205, 3212>>, <<3214, 3216>>,
     <<3218, 3240>>, <<3242, 3251>>, <<3253, 3257>>, <<3261, 3261>>,
     <<3293, 3294>>, <<3296, 3297>>, <<3302, 3311>>, <<3313, 3314>>,
     <<3332, 3340>>, <<3342, 3344>>, <<3346, 3386>>, <<3389, 3389>>,
     <<3406, 3406>>, <<3412, 3414>>, <<3416, 3425>>, <<3430, 3448>>,
     <<3450, 3455>>, <<3461, 3478>>, <<3482, 3505>>, <<3507, 3515>>,
     <<3517, 3517>>, <<3520, 3526>>, <<3558, 3567>>, <<3585, 3632>>,
     <<3634, 3635>>, <<3648, 3654>>, <<3664, 3673>>, <<3713, 3714>>,
     <<3716, 3716>>, <<3718, 3722>>, <<3724, 3747>>, <<3749, 3749>>,
     <<3751, 3760>>, <<3762, 3763>>, <<3773, 3773>>, <<3776, 3780>>,
     <<3782, 3782>>, <<3792, 3801>>, <<3804, 3807>>, <<3840, 3840>>,
     <<3872, 3891>>, <<3904, 3911>>, <<3913, 3948>>, <<3976, 3980>>,
     <<4096, 4138>>, <<4159, 4169>>, <<4176, 4181>>, <<4186, 4189>>,
     <<4193, 4193>>, <<4197, 4198>>, <<4206, 4208>>, <<4213, 4225>>,
     <<4238, 4238>>, <<4240, 4249>>, <<4256, 4293>>, <<4295, 4295>>,
     <<4301, 4301>>, <<4304, 4346>>, <<4348, 4680>>, <<4682, 4685>>,
     <<4688, 4694>>, <<4696, 4696>>, <<4698, 4701>>, <<4704, 4744>>,
     <<4746, 4749>>, <<4752, 4784>>, <<4786, 4789>>, <<4792, 4798>>,
     <<4800, 4800>>, <<4802, 4805>>, <<4808, 4822>>, <<4824, 4880>>,
     <<4882, 4885>>, <<4888, 4954>>, <<4969, 4988>>, <<4992, 5007>>,
     <<5024, 5109>>, <<5112, 5117>>, <<5121, 5740>>, <<5743, 5759>>,
     <<5761, 5786>>, <<5792, 5866>>, <<5870, 5880>>, <<5888, 5905>>,
     <<5919, 5937>>, <<5952, 5969>>, <<5984, 5996>>, <<5998, 6000>>,
     <<6016, 6067>>, <<6103, 6103>>, <<6108, 6108>>, <<6112, 6121>>,
     <<6128, 6137>>, <<6160, 6169>>, <<6176, 6264>>, <<6272, 6276>>,
     <<6279, 6312>>, <<6314, 6314>>, <<6320, 6389>>, <<6400, 6430>>,
     <<6470, 6509>>, <<6512, 6516>>, <<6528, 6571>>, <<6576, 6601>>,
     <<6608, 6618>>, <<6656, 6678>>, <<6688, 6740>>, <<6784, 6793>>,
     <<6800, 6809>>, <<6823, 6823>>, <<6917, 6963>>, <<6981, 6988>>,
     <<6992, 7001>>, <<7043, 7072>>, <<7086, 7141>>, <<7168, 7203>>,
     <<7232, 7241>>, <<7245, 7293>>, <<7296, 7304>>, <<7312, 7354>>,
     <<7357, 7359>>, <<7401, 7404>>, <<7406, 7411>>, <<7413, 7414>>,
     <<7418, 7418>>, <<7424, 7615>>, <<7680, 7957>>, <<7960, 7965>>,
     <<7968, 8005>>, <<8008, 8013>>, <<8016, 8023>>, <<8025, 8025>>,
     <<8027, 8027>>, <<8029, 8029>>, <<8031, 8061>>, <<8064, 8116>>,
     <<8118, 8124>>, <<8126, 8126>>, <<8130, 8132>>, <<8134, 8140>>,
     <<8144, 8147>>, <<8150, 8155>>, <<8160, 8172>>, <<8178, 8180>>,
     <<8182, 8188>>, <<8304, 8305>>, <<8308, 8313>>, <<8319, 8329>>,
     <<8336, 8348>>, <<8450, 8450>>, <<8455, 8455>>, <<8458, 8467>>,
     <<8469, 8469>>, <<8473, 8477>>, <<8484, 8484>>, <<8486, 8486>>,
     <<8488, 8488>>, <<8490, 8493>>, <<8495, 8505>>, <<8508, 8511>>,
     <<8517, 8521>>, <<8526, 8526>>, <<8528, 8585>>, <<9312, 9371>>,
     <<9450, 9471>>, <<10102, 10131>>, <<11264, 11492>>, <<11499, 11502>>,
     <<11506, 11507>>, <<11517, 11517>>, <<11520, 11557>>, <<11559, 11559>>,
     <<11565, 11565>>, <<11568, 11623>>, <<11631, 11631>>, <<11648, 11670>>,
     <<11680, 11686>>, <<11688, 11694>>, <<11696, 11702>>, <<11704, 11710>>,
     <<11712, 11718>>, <<11720, 11726>>, <<11728, 11734>>, <<11736, 11742>>,
     <<11823, 11823>>, <<12293, 12295>>, <<12321, 12329>>, <<12337, 12341>>,
     <<12344, 12348>>, <<12353, 12438>>, <<12445, 12447>>, <<12449, 12538>>,
     <<12540, 12543>>, <<12549, 12591>>, <<12593, 12686>>, <<12690, 12693>>,
     <<12704, 12735>>, <<12784, 12799>>, <<12832, 12841>>, <<12872, 12879>>,
     <<12881, 12895>>, <<12928, 12937>>, <<12977, 12991>>, <<13312, 19903>>,
     <<19968, 42124>>, <<42192, 42237>>, <<42240, 42508>>, <<42512, 42539>>,
     <<42560, 42606>>, <<42623, 42653>>, <<42656, 42735>>, <<42775, 42783>>,
     <<42786, 42888>>, <<42891, 42954>>, <<42960, 42961>>, <<42963, 42963>>,
     <<42965, 42969>>, <<42994, 43009>>, <<43011, 43013>>, <<43015, 43018>>,
     <<43020, 43042>>, <<43056, 43061>>, <<43072, 43123>>, <<43138, 43187>>,
     <<43216, 43225>>, <<43250, 43255>>, <<43259, 43259>>, <<43261, 43262>>,
     <<43264, 43301>>, <<43312, 43334>>, <<43360, 43388>>, <<43396, 43442>>,
     <<43471, 43481>>, <<43488, 43492>>, <<43494, 43518>>, <<43520, 43560>>,
     <<43584, 43586>>, <<43588, 43595>>, <<43600, 43609>>, <<43616, 43638>>,
     <<43642, 43642>>, <<43646, 43695>>, <<43697, 43697>>, <<43701, 43702>>,
     <<43705, 43709>>, <<43712, 43712>>, <<43714, 43714>>, <<43739, 43741>>,
     <<43744, 43754>>, <<43762, 43764>>, <<43777, 43782>>, <<43785, 43790>>,
     <<43793, 43798>>, <<43808, 43814>>, <<43816, 43822>>, <<43824, 43866>>,
     <<43868, 43881>>, <<43888, 44002>>, <<44016, 44025>>, <<44032, 55203>>,
     <<55216, 55238>>, <<55243, 55291>>, <<63744, 64109>>, <<64112, 64217>>,
     <<64256, 64262>>, <<64275, 64279>>, <<64285, 64285>>, <<64287, 64296>>,
     <<64298, 64310>>, <<64312, 64316>>, <<64318, 64318>>, <<64320, 64321>>,
     <<64323, 64324>>, <<64326, 64433>>, <<64467, 64829>>, <<64848, 64911>>,
     <<64914, 64967>>, <<65008, 65019>>, <<65136, 65140>>, <<65142, 65276>>,
     <<65296, 65305>>, <<65313, 65338>>, <<65345, 65370>>, <<65382, 65470>>,
     <<65474, 65479>>, <<65482, 65487>>, <<65490, 65495>>, <<65498, 65500>>,
     <<65536, 65547>>, <<65549, 65574>>, <<65576, 65594>>, <<65596, 65597>>,
     <<65599, 65613>>, <<65616, 65629>>, <<65664, 65786>>, <<65799, 65843>>,
     <<65856, 65912>>, <<65930, 65931>>, <<66176, 66204>>, <<66208, 66256>>,
     <<66273, 66299>>, <<66304, 66339>>, <<66349, 66378>>, <<66384, 66421>>,
     <<66432, 66461>>, <<66464, 66499>>, <<66504, 66511>>, <<66513, 66517>>,
     <<66560, 66717>>, <<66720, 66729>>, <<66736, 66771>>, <<66776, 66811>>,
     <<66816, 66855>>, <<66864, 66915>>, <<66928, 66938>>, <<66940, 66954>>,
     <<66956, 66962>>, <<66964, 66965>>, <<66967, 66977>>, <<66979, 66993>>,
     <<66995, 67001>>, <<67003, 67004>>, <<67072, 67382>>, <<67392, 67413>>,
     <<67424, 67431>>, <<67456, 67461>>, <<67463, 67504>>, <<67506, 67514>>,
     <<67584, 67589>>, <<67592, 67592>>, <<67594, 67637>>, <<67639, 67640>>,
     <<67644, 67644>>, <<67647, 67669>>, <<67672, 67702>>, <<67705, 67742>>,
     <<67751, 67759>>, <<67808, 67826>>, <<67828, 67829>>, <<67835, 67867>>,
     <<67872, 67897>>, <<67968, 68023>>, <<68028, 68047>>, <<68050, 68096>>,
     <<68112, 68115>>, <<68117, 68119>>, <<68121, 68149>>, <<68160, 68168>>,
     <<68192, 68222>>, <<68224, 68255>>, <<68288, 68295>>, <<68297, 68324>>,
     <<68331, 68335>>, <<68352, 68405>>, <<68416, 68437>>, <<68440, 68466>>,
     <<68472, 68497>>, <<68521, 68527>>, <<68608, 68680>>, <<68736, 68786>>,
     <<68800, 68850>>, <<68858, 68899>>, <<68912, 68921>>, <<69216, 69246>>,
     <<69248, 69289>>, <<69296, 69297>>, <<69376, 69415>>, <<69424, 69445>>,
     <<69457, 69460>>, <<69488, 69505>>, <<69552, 69579>>, <<69600, 69622>>,
     <<69635, 69687>>, <<69714, 69743>>, <<69745, 69746>>, <<69749, 69749>>,
     <<69763, 69807>>, <<69840, 69864>>, <<69872, 69881>>, <<69891, 69926>>,
     <<69942, 69951>>, <<69956, 69956>>, <<69959, 69959>>, <<69968, 70002>>,
     <<70006, 70006>>, <<70019, 70066>>, <<70081, 70084>>, <<70096, 70106>>,
     <<70108, 70108>>, <<70113, 70132>>, <<70144, 70161>>, <<70163, 70187>>,
     <<70272, 70278>>, <<70280, 70280>>, <<70282, 70285>>, <<70287, 70301>>,
     <<70303, 70312>>, <<70320, 70366>>, <<70384, 70393>>, <<70405, 70412>>,
     <<70415, 70416>>, <<70419, 70440>>, <<70442, 70448>>, <<70450, 70451>>,
     <<70453, 70457>>, <<70461, 70461>>, <<70480, 70480>>, <<70493, 70497>>,
     <<70656, 70708>>, <<70727, 70730>>, <<70736, 70745>>, <<70751, 70753>>,
     <<70784, 70831>>, <<70852, 70853>>, <<70855, 70855>>, <<70864, 70873>>,
     <<71040, 71086>>, <<71128, 71131>>, <<71168, 71215>>, <<71236, 71236>>,
     <<71248, 71257>>, <<71296, 71338>>, <<71352, 71352>>, <<71360, 71369>>,
     <<71424, 71450>>, <<71472, 71483>>, <<71488, 71494>>, <<71680, 71723>>,
     <<71840, 71922>>, <<71935, 71942>>, <<71945, 71945>>, <<71948, 71955>>,
     <<71957, 71958>>, <<71960, 71983>>, <<71999, 71999>>, <<72001, 72001>>,
     <<72016, 72025>>, <<72096, 72103>>, <<72106, 72144>>, <<72161, 72161>>,
     <<72163, 72163>>, <<72192, 72192>>, <<72203, 72242>>, <<72250, 72250>>,
     <<72272, 72272>>, <<72284, 72329>>, <<72349, 72349>>, <<72368, 72440>>,
     <<72704, 72712>>, <<72714, 72750>>, <<72768, 72768>>, <<72784, 72812>>,
     <<72818, 72847>>, <<72960, 72966>>, <<72968, 72969>>, <<72971, 73008>>,
     <<73030, 73030>>, <<73040, 73049>>, <<73056, 73061>>, <<73063, 73064>>,
     <<73066, 73097>>, <<73112, 73112>>, <<73120, 73129>>, <<73440, 73458>>,
     <<73648, 73648>>, <<73664, 73684>>, <<73728, 74649>>, <<74752, 74862>>,
     <<74880, 75075>>, <<77712, 77808>>, <<77824, 78894>>, <<82944, 83526>>,
     <<92160, 92728>>, <<92736, 92766>>, <<92768, 92777>>, <<92784, 92862>>,
     <<92864, 92873>>, <<92880, 92909>>, <<92928, 92975>>, <<92992, 92995>>,
     <<93008, 93017>>, <<93019, 93025>>, <<93027, 93047>>, <<93053, 93071>>,
     <<93760, 93846>>, <<93952, 94026>>, <<94032, 94032>>, <<94099, 94111>>,
     <<94176, 94177>>, <<94179, 94179>>, <<94208, 100343>>,
     <<100352, 101589>>, <<101632, 101640>>, <<110576, 110579>>,
     <<110581, 110587>>, <<110589, 110590>>, <<110592, 110882>>,
     <<110928, 110930>>, <<110948, 110951>>, <<110960, 111355>>,
     <<113664, 113770>>, <<113776, 113788>>, <<113792, 113800>>,
     <<113808, 113817>>, <<119520, 119539>>, <<119648, 119672>>,
     <<119808, 119892>>, <<119894, 119964>>, <<119966, 119967>>,
     <<119970, 119970>>, <<119973, 119974>>, <<119977, 119980>>,
     <<119982, 119993>>, <<119995, 119995>>, <<119997, 120003>>,
     <<120005, 120069>>, <<120071, 120074>>, <<120077, 120084>>,
     <<120086, 120092>>, <<120094, 120121>>, <<120123, 120126>>,
     <<120128, 120132>>, <<120134, 120134>>, <<120138, 120144>>,
     <<120146, 120485>>, <<120488, 120512>>, <<120514, 120538>>,
     <<120540, 120570>>, <<120572, 120596>>, <<120598, 120628>>,
     <<120630, 120654>>, <<120656, 120686>>, <<120688, 120712>>,
     <<120714, 120744>>, <<120746, 120770>>, <<120772, 120779>>,
     <<120782, 120831>>, <<122624, 122654>>, <<123136, 123180>>,
     <<123191, 123197>>, <<123200, 123209>>, <<123214, 123214>>,
     <<123536, 123565>>, <<123584, 123627>>, <<123632, 123641>>,
     <<124896, 124902>>, <<124904, 124907>>, <<124909, 124910>>,
     <<124912, 124926>>, <<124928, 125124>>, <<125127, 125135>>,
     <<125184, 125251>>, <<125259, 125259>>, <<125264, 125273>>,
     <<126065, 126123>>, <<126125, 126127>>, <<126129, 126132>>,
     <<126209, 126253>>, <<126255, 126269>>, <<126464, 126467>>,
     <<126469, 126495>>, <<126497, 126498>>, <<126500, 126500>>,
     <<126503, 126503>>, <<126505, 126514>>, <<126516, 126519>>,
     <<126521, 126521>>, <<126523, 126523>>, <<126530, 126530>>,
     <<126535, 126535>>, <<126537, 126537>>, <<126539, 126539>>,
     <<126541, 126543>>, <<126545, 126546>>, <<126548, 126548>>,
     <<126551, 126551>>, <<126553, 126553>>, <<126555, 126555>>,
     <<126557, 126557>>, <<126559, 126559>>, <<126561, 126562>>,
     <<126564, 126564>>, <<126567, 126570>>, <<126572, 126578>>,
     <<126580, 126583>>, <<126585, 126588>>, <<126590, 126590>>,
     <<126592, 126601>>, <<126603, 126619>>, <<126625, 126627>>,
     <<126629, 126633>>, <<126635, 126651>>, <<127232, 127244>>,
     <<130032, 130041>>, <<131072, 173791>>, <<173824, 177976>>,
     <<177984, 178205>>, <<178208, 183969>>, <<183984, 191456>>,
     <<194560, 195101>>, <<196608, 201546>>}

WordChars == CharsOf(WordRanges)

(* [a-zA-Z] *)
IsLetter(c) == c \in Letters

(* \w *)
IsWordChar(c) == c \in WordChars

(* \s: the characters str.isspace() takes *)
Spaces ==
    {9, 10, 11, 12, 13, 28, 29, 30, 31, 32, 133, 160, 5760, 8192, 8193,
     8194, 8195, 8196, 8197, 8198, 8199, 8200, 8201, 8202, 8232, 8233, 8239,
     8287, 12288}

IsSpace(c) == c \in Spaces

(* str.lower(): the characters it changes, as runs <<first, last, step,    *)
(* shift>>: first, first + step, ... up to last each become the character  *)
(* shift further on.  U+0130 becomes two characters and is not among them. *)
LowerRuns ==
    {<<65, 90, 1, 32>>, <<192, 214, 1, 32>>, <<216, 222, 1, 32>>,
     <<256, 302, 2, 1>>, <<306, 310, 2, 1>>, <<313, 327, 2, 1>>,
     <<330, 374, 2, 1>>, <<376, 376, 1, -121>>, <<377, 381, 2, 1>>,
     <<385, 385, 1, 210>>, <<386, 388, 2, 1>>, <<390, 390, 1, 206>>,
     <<391, 391, 1, 1>>, <<393, 394, 1, 205>>, <<395, 395, 1, 1>>,
     <<398, 398, 1, 79>>, <<399, 399, 1, 202>>, <<400, 400, 1, 203>>,
     <<401, 401, 1, 1>>, <<403, 403, 1, 205>>, <<404, 404, 1, 207>>,
     <<406, 406, 1, 211>>, <<407, 407, 1, 209>>, <<408, 408, 1, 1>>,
     <<412, 412, 1, 211>>, <<413, 413, 1, 213>>, <<415, 415, 1, 214>>,
     <<416, 420, 2, 1>>, <<422, 422, 1, 218>>, <<423, 423, 1, 1>>,
     <<425, 425, 1, 218>>, <<428, 428, 1, 1>>, <<430, 430, 1, 218>>,
     <<431, 431, 1, 1>>, <<433, 434, 1, 217>>, <<435, 437, 2, 1>>,
     <<439, 439, 1, 219>>, <<440, 440, 1, 1>>, <<444, 444, 1, 1>>,
     <<452, 452, 1, 2>>, <<453, 453, 1, 1>>, <<455, 455, 1, 2>>,
     <<456, 456, 1, 1>>, <<458, 458, 1, 2>>, <<459, 475, 2, 1>>,
     <<478, 494, 2, 1>>, <<497, 497, 1, 2>>, <<498, 500, 2, 1>>,
     <<502, 502, 1, -97>>, <<503, 503, 1, -56>>, <<504, 542, 2, 1>>,
     <<544, 544, 1, -130>>, <<546, 562, 2, 1>>, <<570, 570, 1, 10795>>,
     <<571, 571, 1, 1>>, <<573, 573, 1, -163>>, <<574, 574, 1, 10792>>,
     <<577, 577, 1, 1>>, <<579, 579, 1, -195>>, <<580, 580, 1, 69>>,
     <<581, 581, 1, 71>>, <<582, 590, 2, 1>>, <<880, 882, 2, 1>>,
     <<886, 886, 1, 1>>, <<895, 895, 1, 116>>, <<902, 902, 1, 38>>,
     <<904, 906, 1, 37>>, <<908, 908, 1, 64>>, <<910, 911, 1, 63>>,
     <<913, 929, 1, 32>>, <<931, 939, 1, 32>>, <<975, 975, 1, 8>>,
     <<984, 1006, 2, 1>>, <<1012, 1012, 1, -60>>, <<1015, 1015, 1, 1>>,
     <<1017, 1017, 1, -7>>, <<1018, 1018, 1, 1>>, <<1021, 1023, 1, -130>>,
     <<1024, 1039, 1, 80>>, <<1040, 1071, 1, 32>>, <<1120, 1152, 2, 1>>,
     <<1162, 1214, 2, 1>>, <<1216, 1216, 1, 15>>, <<1217, 1229, 2, 1>>,
     <<1232, 1326, 2, 1>>, <<1329, 1366, 1, 48>>, <<4256, 4293, 1, 7264>>,
     <<4295, 4295, 1, 7264>>, <<4301, 4301, 1, 7264>>,
     <<5024, 5103, 1, 38864>>, <<5104, 5109, 1, 8>>,
     <<7312, 7354, 1, -3008>>, <<7357, 7359, 1, -3008>>,
     <<7680, 7828, 2, 1>>, <<7838, 7838, 1, -7615>>, <<7840, 7934, 2, 1>>,
     <<7944, 7951, 1, -8>>, <<7960, 7965, 1, -8>>, <<7976, 7983, 1, -8>>,
     <<7992, 7999, 1, -8>>, <<8008, 8013, 1, -8>>, <<8025, 8031, 2, -8>>,
     <<8040, 8047, 1, -8>>, <<8072, 8079, 1, -8>>, <<8088, 8095, 1, -8>>,
     <<8104, 8111, 1, -8>>, <<8120, 8121, 1, -8>>, <<8122, 8123, 1, -74>>,
     <<8124, 8124, 1, -9>>, <<8136, 8139, 1, -86>>, <<8140, 8140, 1, -9>>,
     <<8152, 8153, 1, -8>>, <<8154, 8155, 1, -100>>, <<8168, 8169, 1, -8>>,
     <<8170, 8171, 1, -112>>, <<8172, 8172, 1, -7>>,
     <<8184, 8185, 1, -128>>, <<8186, 8187, 1, -126>>,
     <<8188, 8188, 1, -9>>, <<8486, 8486, 1, -7517>>,
     <<8490, 8490, 1, -8383>>, <<8491, 8491, 1, -8262>>,
     <<8498, 8498, 1, 28>>, <<8544, 8559, 1, 16>>, <<8579, 8579, 1, 1>>,
     <<9398, 9423, 1, 26>>, <<11264, 11311, 1, 48>>, <<11360, 11360, 1, 1>>,
     <<11362, 11362, 1, -10743>>, <<11363, 11363, 1, -3814>>,
     <<11364, 11364, 1, -10727>>, <<11367, 11371, 2, 1>>,
     <<11373, 11373, 1, -10780>>, <<11374, 11374, 1, -10749>>,
     <<11375, 11375, 1, -10783>>, <<11376, 11376, 1, -10782>>,
     <<11378, 11378, 1, 1>>, <<11381, 11381, 1, 1>>,
     <<11390, 11391, 1, -10815>>, <<11392, 11490, 2, 1>>,
     <<11499, 11501, 2, 1>>, <<11506, 11506, 1, 1>>, <<42560, 42604, 2, 1>>,
     <<42624, 42650, 2, 1>>, <<42786, 42798, 2, 1>>, <<42802, 42862, 2, 1>>,
     <<42873, 42875, 2, 1>>, <<42877, 42877, 1, -35332>>,
     <<42878, 42886, 2, 1>>, <<42891, 42891, 1, 1>>,
     <<42893, 42893, 1, -42280>>, <<42896, 42898, 2, 1>>,
     <<42902, 42920, 2, 1>>, <<42922, 42922, 1, -42308>>,
     <<42923, 42923, 1, -42319>>, <<42924, 42924, 1, -42315>>,
     <<42925, 42925, 1, -42305>>, <<42926, 42926, 1, -42308>>,
     <<42928, 42928, 1, -42258>>, <<42929, 42929, 1, -42282>>,
     <<42930, 42930, 1, -42261>>, <<42931, 42931, 1, 928>>,
     <<42932, 42946, 2, 1>>, <<42948, 42948, 1, -48>>,
     <<42949, 42949, 1, -42307>>, <<42950, 42950, 1, -35384>>,
     <<42951, 42953, 2, 1>>, <<42960, 42960, 1, 1>>, <<42966, 42968, 2, 1>>,
     <<42997, 42997, 1, 1>>, <<65313, 65338, 1, 32>>,
     <<66560, 66599, 1, 40>>, <<66736, 66771, 1, 40>>,
     <<66928, 66938, 1, 39>>, <<66940, 66954, 1, 39>>,
     <<66956, 66962, 1, 39>>, <<66964, 66965, 1, 39>>,
     <<68736, 68786, 1, 64>>, <<71840, 71871, 1, 32>>,
     <<93760, 93791, 1, 32>>, <<125184, 125217, 1, 34>>}

(* The characters of the run r *)
RunChars(r) == {r[1] + r[3] * k : k \in 0..((r[2] - r[1]) \div r[3])}

(* The characters str.lower() changes into one other character *)
UpperChars == {c : c \in UNION {RunChars(r) : r \in LowerRuns}}

(* How far on the character that str.lower() makes of c is *)
Shift(c) == (CHOOSE r \in LowerRuns : c \in RunChars(r))[4]

(* The cased characters and the ones the casing rules look through *)
CasedRanges ==
    {<<65, 90>>, <<97, 122>>, <<170, 170>>, <<181, 181>>, <<186, 186>>,
     <<192, 214>>, <<216, 246>>, <<248, 442>>, <<444, 447>>, <<452, 659>>,
     <<661, 687>>, <<880, 883>>, <<886, 887>>, <<891, 893>>, <<895, 895>>,
     <<902, 902>>, <<904, 906>>, <<908, 908>>, <<910, 929>>, <<931, 1013>>,
     <<1015, 1153>>, <<1162, 1327>>, <<1329, 1366>>, <<1376, 1416>>,
     <<4256, 4293>>, <<4295, 4295>>, <<4301, 4301>>, <<4304, 4346>>,
     <<4349, 4351>>, <<5024, 5109>>, <<5112, 5117>>, <<7296, 7304>>,
     <<7312, 7354>>, <<7357, 7359>>, <<7424, 7467>>, <<7531, 7543>>,
     <<7545, 7578>>, <<7680, 7957>>, <<7960, 7965>>, <<7968, 8005>>,
     <<8008, 8013>>, <<8016, 8023>>, <<8025, 8025>>, <<8027, 8027>>,
     <<8029, 8029>>, <<8031, 8061>>, <<8064, 8116>>, <<8118, 8124>>,
     <<8126, 8126>>, <<8130, 8132>>, <<8134, 8140>>, <<8144, 8147>>,
     <<8150, 8155>>, <<8160, 8172>>, <<8178, 8180>>, <<8182, 8188>>,
     <<8450, 8450>>, <<8455, 8455>>, <<8458, 8467>>, <<8469, 8469>>,
     <<8473, 8477>>, <<8484, 8484>>, <<8486, 8486>>, <<8488, 8488>>,
     <<8490, 8493>>, <<8495, 8500>>, <<8505, 8505>>, <<8508, 8511>>,
     <<8517, 8521>>, <<8526, 8526>>, <<8544, 8575>>, <<8579, 8580>>,
     <<9398, 9449>>, <<11264, 11387>>, <<11390, 11492>>, <<11499, 11502>>,
     <<11506, 11507>>, <<11520, 11557>>, <<11559, 11559>>, <<11565, 11565>>,
     <<42560, 42605>>, <<42624, 42651>>, <<42786, 42863>>, <<42865, 42887>>,
     <<42891, 42894>>, <<42896, 42954>>, <<42960, 42961>>, <<42963, 42963>>,
     <<42965, 42969>>, <<42997, 42998>>, <<43002, 43002>>, <<43824, 43866>>,
     <<43872, 43880>>, <<43888, 43967>>, <<64256, 64262>>, <<64275, 64279>>,
     <<65313, 65338>>, <<65345, 65370>>, <<66560, 66639>>, <<66736, 66771>>,
     <<66776, 66811>>, <<66928, 66938>>, <<66940, 66954>>, <<66956, 66962>>,
     <<66964, 66965>>, <<66967, 66977>>, <<66979, 66993>>, <<66995, 67001>>,
     <<67003, 67004>>, <<68736, 68786>>, <<68800, 68850>>, <<71840, 71903>>,
     <<93760, 93823>>, <<119808, 119892>>, <<119894, 119964>>,
     <<119966, 119967>>, <<119970, 119970>>, <<119973, 119974>>,
     <<119977, 119980>>, <<119982, 119993>>, <<119995, 119995>>,
     <<119997, 120003>>, <<120005, 120069>>, <<120071, 120074>>,
     <<120077, 120084>>, <<120086, 120092>>, <<120094, 120121>>,
     <<120123, 120126>>, <<120128, 120132>>, <<120134, 120134>>,
     <<120138, 120144>>, <<120146, 120485>>, <<120488, 120512>>,
     <<120514, 120538>>, <<120540, 120570>>, <<120572, 120596>>,
     <<120598, 120628>>, <<120630, 120654>>, <<120656, 120686>>,
     <<120688, 120712>>, <<120714, 120744>>, <<120746, 120770>>,
     <<120772, 120779>>, <<122624, 122633>>, <<122635, 122654>>,
     <<125184, 125251>>, <<127280, 127305>>, <<127312, 127337>>,
     <<127344, 127369>>}

Cased == CharsOf(CasedRanges)

IgnorableRanges ==
    {<<39, 39>>, <<46, 46>>, <<58, 58>>, <<94, 94>>, <<96, 96>>,
     <<168, 168>>, <<173, 173>>, <<175, 175>>, <<180, 180>>, <<183, 184>>,
     <<688, 879>>, <<884, 885>>, <<890, 890>>, <<900, 901>>, <<903, 903>>,
     <<1155, 1161>>, <<1369, 1369>>, <<1375, 1375>>, <<1425, 1469>>,
     <<1471, 1471>>, <<1473, 1474>>, <<1476, 1477>>, <<1479, 1479>>,
     <<1524, 1524>>, <<1536, 1541>>, <<1552, 1562>>, <<1564, 1564>>,
     <<1600, 1600>>, <<1611, 1631>>, <<1648, 1648>>, <<1750, 1757>>,
     <<1759, 1768>>, <<1770, 1773>>, <<1807, 1807>>, <<1809, 1809>>,
     <<1840, 1866>>, <<1958, 1968>>, <<2027, 2037>>, <<2042, 2042>>,
     <<2045, 2045>>, <<2070, 2093>>, <<2137, 2139>>, <<2184, 2184>>,
     <<2192, 2193>>, <<2200, 2207>>, <<2249, 2306>>, <<2362, 2362>>,
     <<2364, 2364>>, <<2369, 2376>>, <<2381, 2381>>, <<2385, 2391>>,
     <<2402, 2403>>, <<2417, 2417>>, <<2433, 2433>>, <<2492, 2492>>,
     <<2497, 2500>>, <<2509, 2509>>, <<2530, 2531>>, <<2558, 2558>>,
     <<2561, 2562>>, <<2620, 2620>>, <<2625, 2626>>, <<2631, 2632>>,
     <<2635, 2637>>, <<2641, 2641>>, <<2672, 2673>>, <<2677, 2677>>,
     <<2689, 2690>>, <<2748, 2748>>, <<2753, 2757>>, <<2759, 2760>>,
     <<2765, 2765>>, <<2786, 2787>>, <<2810, 2815>>, <<2817, 2817>>,
     <<2876, 2876>>, <<2879, 2879>>, <<2881, 2884>>, <<2893, 2893>>,
     <<2901, 2902>>, <<2914, 2915>>, <<2946, 2946>>, <<3008, 3008>>,
     <<3021, 3021>>, <<3072, 3072>>, <<3076, 3076>>, <<3132, 3132>>,
     <<3134, 3136>>, <<3142, 3144>>, <<3146, 3149>>, <<3157, 3158>>,
     <<3170, 3171>>, <<3201, 3201>>, <<3260, 3260>>, <<3263, 3263>>,
     <<3270, 3270>>, <<3276, 3277>>, <<3298, 3299>>, <<3328, 3329>>,
     <<3387, 3388>>, <<3393, 3396>>, <<3405, 3405>>, <<3426, 3427>>,
     <<3457, 3457>>, <<3530, 3530>>, <<3538, 3540>>, <<3542, 3542>>,
     <<3633, 3633>>, <<3636, 3642>>, <<3654, 3662>>, <<3761, 3761>>,
     <<3764, 3772>>, <<3782, 3782>>, <<3784, 3789>>, <<3864, 3865>>,
     <<3893, 3893>>, <<3895, 3895>>, <<3897, 3897>>, <<3953, 3966>>,
     <<3968, 3972>>, <<3974, 3975>>, <<3981, 3991>>, <<3993, 4028>>,
     <<4038, 4038>>, <<4141, 4144>>, <<4146, 4151>>, <<4153, 4154>>,
     <<4157, 4158>>, <<4184, 4185>>, <<4190, 4192>>, <<4209, 4212>>,
     <<4226, 4226>>, <<4229, 4230>>, <<4237, 4237>>, <<4253, 4253>>,
     <<4348, 4348>>, <<4957, 4959>>, <<5906, 5908>>, <<5938, 5939>>,
     <<5970, 5971>>, <<6002, 6003>>, <<6068, 6069>>, <<6071, 6077>>,
     <<6086, 6086>>, <<6089, 6099>>, <<6103, 6103>>, <<6109, 6109>>,
     <<6155, 6159>>, <<6211, 6211>>, <<6277, 6278>>, <<6313, 6313>>,
     <<6432, 6434>>, <<6439, 6440>>, <<6450, 6450>>, <<6457, 6459>>,
     <<6679, 6680>>, <<6683, 6683>>, <<6742, 6742>>, <<6744, 6750>>,
     <<6752, 6752>>, <<6754, 6754>>, <<6757, 6764>>, <<6771, 6780>>,
     <<6783, 6783>>, <<6823, 6823>>, <<6832, 6862>>, <<6912, 6915>>,
     <<6964, 6964>>, <<6966, 6970>>, <<6972, 6972>>, <<6978, 6978>>,
     <<7019, 7027>>, <<7040, 7041>>, <<7074, 7077>>, <<7080, 7081>>,
     <<7083, 7085>>, <<7142, 7142>>, <<7144, 7145>>, <<7149, 7149>>,
     <<7151, 7153>>, <<7212, 7219>>, <<7222, 7223>>, <<7288, 7293>>,
     <<7376, 7378>>, <<7380, 7392>>, <<7394, 7400>>, <<7405, 7405>>,
     <<7412, 7412>>, <<7416, 7417>>, <<7468, 7530>>, <<7544, 7544>>,
     <<7579, 7679>>, <<8125, 8125>>, <<8127, 8129>>, <<8141, 8143>>,
     <<8157, 8159>>, <<8173, 8175>>, <<8189, 8190>>, <<8203, 8207>>,
     <<8216, 8217>>, <<8228, 8228>>, <<8231, 8231>>, <<8234, 8238>>,
     <<8288, 8292>>, <<8294, 8303>>, <<8305, 8305>>, <<8319, 8319>>,
     <<8336, 8348>>, <<8400, 8432>>, <<11388, 11389>>, <<11503, 11505>>,
     <<11631, 11631>>, <<11647, 11647>>, <<11744, 11775>>, <<11823, 11823>>,
     <<12293, 12293>>, <<12330, 12333>>, <<12337, 12341>>, <<12347, 12347>>,
     <<12441, 12446>>, <<12540, 12542>>, <<40981, 40981>>, <<42232, 42237>>,
     <<42508, 42508>>, <<42607, 42610>>, <<42612, 42621>>, <<42623, 42623>>,
     <<42652, 42655>>, <<42736, 42737>>, <<42752, 42785>>, <<42864, 42864>>,
     <<42888, 42890>>, <<42994, 42996>>, <<43000, 43001>>, <<43010, 43010>>,
     <<43014, 43014>>, <<43019, 43019>>, <<43045, 43046>>, <<43052, 43052>>,
     <<43204, 43205>>, <<43232, 43249>>, <<43263, 43263>>, <<43302, 43309>>,
     <<43335, 43345>>, <<43392, 43394>>, <<43443, 43443>>, <<43446, 43449>>,
     <<43452, 43453>>, <<43471, 43471>>, <<43493, 43494>>, <<43561, 43566>>,
     <<43569, 43570>>, <<43573, 43574>>, <<43587, 43587>>, <<43596, 43596>>,
     <<43632, 43632>>, <<43644, 43644>>, <<43696, 43696>>, <<43698, 43700>>,
     <<43703, 43704>>, <<43710, 43711>>, <<43713, 43713>>, <<43741, 43741>>,
     <<43756, 43757>>, <<43763, 43764>>, <<43766, 43766>>, <<43867, 43871>>,
     <<43881, 43883>>, <<44005, 44005>>, <<44008, 44008>>, <<44013, 44013>>,
     <<64286, 64286>>, <<64434, 64450>>, <<65024, 65039>>, <<65043, 65043>>,
     <<65056, 65071>>, <<65106, 65106>>, <<65109, 65109>>, <<65279, 65279>>,
     <<65287, 65287>>, <<65294, 65294>>, <<65306, 65306>>, <<65342, 65342>>,
     <<65344, 65344>>, <<65392, 65392>>, <<65438, 65439>>, <<65507, 65507>>,
     <<65529, 65531>>, <<66045, 66045>>, <<66272, 66272>>, <<66422, 66426>>,
     <<67456, 67461>>, <<67463, 67504>>, <<67506, 67514>>, <<68097, 68099>>,
     <<68101, 68102>>, <<68108, 68111>>, <<68152, 68154>>, <<68159, 68159>>,
     <<68325, 68326>>, <<68900, 68903>>, <<69291, 69292>>, <<69446, 69456>>,
     <<69506, 69509>>, <<69633, 69633>>, <<69688, 69702>>, <<69744, 69744>>,
     <<69747, 69748>>, <<69759, 69761>>, <<69811, 69814>>, <<69817, 69818>>,
     <<69821, 69821>>, <<69826, 69826>>, <<69837, 69837>>, <<69888, 69890>>,
     <<69927, 69931>>, <<69933, 69940>>, <<70003, 70003>>, <<70016, 70017>>,
     <<70070, 70078>>, <<70089, 70092>>, <<70095, 70095>>, <<70191, 70193>>,
     <<70196, 70196>>, <<70198, 70199>>, <<70206, 70206>>, <<70367, 70367>>,
     <<70371, 70378>>, <<70400, 70401>>, <<70459, 70460>>, <<70464, 70464>>,
     <<70502, 70508>>, <<70512, 70516>>, <<70712, 70719>>, <<70722, 70724>>,
     <<70726, 70726>>, <<70750, 70750>>, <<70835, 70840>>, <<70842, 70842>>,
     <<70847, 70848>>, <<70850, 70851>>, <<71090, 71093>>, <<71100, 71101>>,
     <<71103, 71104>>, <<71132, 71133>>, <<71219, 71226>>, <<71229, 71229>>,
     <<71231, 71232>>, <<71339, 71339>>, <<71341, 71341>>, <<71344, 71349>>,
     <<71351, 71351>>, <<71453, 71455>>, <<71458, 71461>>, <<71463, 71467>>,
     <<71727, 71735>>, <<71737, 71738>>, <<71995, 71996>>, <<71998, 71998>>,
     <<72003, 72003>>, <<72148, 72151>>, <<72154, 72155>>, <<72160, 72160>>,
     <<72193, 72202>>, <<72243, 72248>>, <<72251, 72254>>, <<72263, 72263>>,
     <<72273, 72278>>, <<72281, 72283>>, <<72330, 72342>>, <<72344, 72345>>,
     <<72752, 72758>>, <<72760, 72765>>, <<72767, 72767>>, <<72850, 72871>>,
     <<72874, 72880>>, <<72882, 72883>>, <<72885, 72886>>, <<73009, 73014>>,
     <<73018, 73018>>, <<73020, 73021>>, <<73023, 73029>>, <<73031, 73031>>,
     <<73104, 73105>>, <<73109, 73109>>, <<73111, 73111>>, <<73459, 73460>>,
     <<78896, 78904>>, <<92912, 92916>>, <<92976, 92982>>, <<92992, 92995>>,
     <<94031, 94031>>, <<94095, 94111>>, <<94176, 94177>>, <<94179, 94180>>,
     <<110576, 110579>>, <<110581, 110587>>, <<110589, 110590>>,
     <<113821, 113822>>, <<113824, 113827>>, <<118528, 118573>>,
     <<118576, 118598>>, <<119143, 119145>>, <<119155, 119170>>,
     <<119173, 119179>>, <<119210, 119213>>, <<119362, 119364>>,
     <<121344, 121398>>, <<121403, 121452>>, <<121461, 121461>>,
     <<121476, 121476>>, <<121499, 121503>>, <<121505, 121519>>,
     <<122880, 122886>>, <<122888, 122904>>, <<122907, 122913>>,
     <<122915, 122916>>, <<122918, 122922>>, <<123184, 123197>>,
     <<123566, 123566>>, <<123628, 123631>>, <<125136, 125142>>,
     <<125252, 125259>>, <<127995, 127999>>, <<917505, 917505>>,
     <<917536, 917631>>, <<917760, 917999>>}

CaseIgnorable == CharsOf(IgnorableRanges)

CapitalSigma == 931

SmallSigma == 963

FinalSmallSigma == 962

DottedCapitalI == 304

CombiningDot == 775

(* str.lower() turns a capital sigma into the final form when a cased      *)
(* character comes before it and none after it, case-ignorable characters  *)
(* looked through.                                                          *)
FinalSigma(s, i) ==
    LET before == {j \in 1..(i - 1) : s[j] \notin CaseIgnorable}
        after  == {j \in (i + 1)..Len(s) : s[j] \notin CaseIgnorable}
    IN  /\ before # {}
        /\ s[CHOOSE j \in before : \A k \in before : k <= j] \in Cased
        /\ \/ after = {}
           \/ s[CHOOSE j \in after : \A k \in after : j <= k] \notin Cased

(* What str.lower() makes of the character at position i of s *)
lower_at(s, i) ==
    IF s[i] = CapitalSigma
    THEN IF FinalSigma(s, i) THEN <<FinalSmallSigma>> ELSE <<SmallSigma>>
    ELSE IF s[i] = DottedCapitalI THEN <<ord("i"), CombiningDot>>
    ELSE IF s[i] \in UpperChars THEN <<s[i] + Shift(s[i])>>
    ELSE <<s[i]>>

RECURSIVE lower_from(_, _)
lower_from(s, i) ==
    IF i > Len(s) THEN << >> ELSE lower_at(s, i) \o lower_from(s, i + 1)

(* str.lower() *)
lower(s) == list(lower_from(s, 1))

(* The last position of the longest run of characters from position i on   *)
(* that are in chars (inside = TRUE) or are not in chars (inside = FALSE); *)
(* i - 1 if s[i] is no such character.                                      *)
RECURSIVE RunEnd(_, _, _, _)
RunEnd(s, i, chars, inside) ==
    IF i <= Len(s) /\ (s[i] \in chars) = inside
    THEN RunEnd(s, i + 1, chars, inside)
    ELSE i - 1

Hash == ord("#")

(* re.findall(r'#\w+', text) *)
findall_hashtags(s) ==
    LET starts == SelectSeq([i \in DOMAIN s |-> i],
                            LAMBDA i : /\ s[i] = Hash
                                       /\ i < Len(s)
                                       /\ IsWordChar(s[i + 1]))
    IN  [k \in DOMAIN starts |->
            SubSeq(s, starts[k], RunEnd(s, starts[k] + 1, WordChars, TRUE))]

NotSpace(c) == ~IsSpace(c)

(* '.' matches every character but the line feed *)
LineFeed == 10

(* The first position after p that holds the closing character, when no    *)
(* line feed comes before it; 0 if none.                                    *)
CloseAt(s, p, close) ==
    IF \E q \in (p + 1)..Len(s) :
          s[q] = close /\ \A k \in (p + 1)..(q - 1) : s[k] # LineFeed
    THEN CHOOSE q \in (p + 1)..Len(s) :
            /\ s[q] = close
            /\ \A k \in (p + 1)..(q - 1) : s[k] # close /\ s[k] # LineFeed
    ELSE 0

Http == codes("http")

At == ord("@")

OpenBracket == ord("[")

CloseBracket == ord("]")

OpenParen == ord("(")

CloseParen == ord(")")

(* The last position of the match of http\S+|@\w+|\[.*?\]|\(.*?\) that     *)
(* starts at position p; 0 if none starts there.                            *)
MatchEnd(s, p) ==
    IF /\ p + 4 <= Len(s)
       /\ SubSeq(s, p, p + 3) = Http
       /\ NotSpace(s[p + 4])
    THEN RunEnd(s, p + 4, Spaces, FALSE)
    ELSE IF s[p] = At /\ p < Len(s) /\ IsWordChar(s[p + 1])
    THEN RunEnd(s, p + 1, WordChars, TRUE)
    ELSE IF s[p] = OpenBracket THEN CloseAt(s, p, CloseBracket)
    ELSE IF s[p] = OpenParen THEN CloseAt(s, p, CloseParen)
    ELSE 0

(* re.sub(r'http\S+|@\w+|\[.*?\]|\(.*?\)', '', text), from position p on *)
RECURSIVE sub_from(_, _)
sub_from(s, p) ==
    IF p > Len(s) THEN << >>
    ELSE IF MatchEnd(s, p) # 0 THEN sub_from(s, MatchEnd(s, p) + 1)
    ELSE <<s[p]>> \o sub_from(s, p + 1)

sub(s) == list(sub_from(s, 1))

(* The positions of s that re.sub leaves in place, from position p on *)
RECURSIVE kept_from(_, _)
kept_from(s, p) ==
    IF p > Len(s) THEN << >>
    ELSE IF MatchEnd(s, p) # 0 THEN kept_from(s, MatchEnd(s, p) + 1)
    ELSE <<p>> \o kept_from(s, p + 1)

kept_positions(s) == list(kept_from(s, 1))

(* re.findall(r'\b[a-zA-Z]{3,}\b', text): the runs of word characters that *)
(* are letters only and at least 3 long.                                    *)
word_starts(s) ==
    SelectSeq([i \in DOMAIN s |-> i],
              LAMBDA i : /\ IsWordChar(s[i])
                         /\ i > 1 => ~IsWordChar(s[i - 1])
                         /\ RunEnd(s, i, Letters, TRUE) = RunEnd(s, i, WordChars, TRUE)
                         /\ RunEnd(s, i, Letters, TRUE) >= i + 2)

findall_words(s) ==
    LET starts == word_starts(s)
    IN  [k \in DOMAIN starts |->
            SubSeq(s, starts[k], RunEnd(s, starts[k], Letters, TRUE))]
stopword_strings ==
    {"the", "and", "for", "are", "but", "not", "you", "all", "can", "had",
     "her", "was", "one", "our", "out", "day", "get", "has", "him", "his",
     "how", "its", "may", "new", "now", "old", "see", "two", "who", "boy",
     "did", "this", "that", "with", "have", "from", "they", "know", "want",
     "been", "good", "much", "some", "time", "very", "when", "come",
     "here", "just", "like", "long", "make", "many", "over", "such",
     "take", "than", "them", "well", "were", "what", "will", "your",
     "about", "after", "again", "back", "could", "first", "found", "great",
     "group", "hand", "high", "keep", "large", "last", "left", "life",
     "live", "made", "might", "move", "must", "name", "need", "never",
     "next", "number", "part", "place", "point", "put", "right", "said",
     "same", "seem", "small", "still", "tell", "think", "turn", "use",
     "way", "where", "which", "work", "world", "year", "young", "reddit",
     "comment", "comments", "post"}

(* stopwords *)
stopwords == {codes(w) : w \in stopword_strings}

(* Faulty variant: words of every length are kept *)
keep_any_length(w) == w \notin stopwords

(* w not in stopwords and len(w) >= 4 *)
keep(w) == w \notin stopwords /\ Len(w) >= MinLength

Underscore == ord("_")

(* Faulty variant: the hashtags are taken out of the text with the spans *)
clean_text_hashtags_removed(t) ==
    IF t = None \/ t = << >> THEN << >>
    ELSE LET low      == lower(t)
             hashtags == findall_hashtags(low)
             rest     == sub(low)
             words_   == findall_words(
                            [i \in DOMAIN rest |->
                                IF i > 1 /\ rest[i - 1] = Hash
                                THEN Underscore ELSE rest[i]])
         IN  hashtags \o SelectSeq(words_, keep)

(* "if not text: return []" takes None and the empty text *)
clean_text(t) ==
    IF t = None \/ t = << >> THEN << >>
    ELSE LET low      == lower(t)
             hashtags == findall_hashtags(low)
             words_   == findall_words(sub(low))
         IN  hashtags \o SelectSeq(words_, keep)

----------------------------------------------------------------------------
(* The state machine *)

Empty == [w \in {} |-> 0]

Init ==
    /\ feed \in {"narrow", "wide"}
    /\ pc = "loop"
    /\ idx = 1
    /\ all_words = << >>
    /\ words = << >>
    /\ trends = << >>
    /\ previous_trends = Empty
    /\ tx_trends = << >>
    /\ tx_alerts = << >>
    /\ db_trends = << >>
    /\ db_alerts = << >>
    /\ cycle = 0
    /\ start_prev = Empty
    /\ start_rows = <<0, 0>>
    /\ ok_tokens = << >>
    /\ attempts = << >>
    /\ base_words = << >>
    /\ saved_words = << >>
    /\ text = << >>
    /\ cleaned = << >>
    /\ tpc = "idle"
    /\ now = 0
    /\ result = << >>
    /\ timeframe = ""
    /\ stats = NoStats
    /\ rpc = "idle"

(* while True: try: self.run_cycle() -> scrape_reddit() entered *)
StartCycle ==
    /\ pc = "loop"
    /\ cycle < MaxCycles
    /\ pc' = "scrape"
    /\ cycle' = cycle + 1
    /\ idx' = 1
    /\ all_words' = << >>
    /\ words' = << >>
    /\ trends' = << >>
    /\ start_prev' = previous_trends
    /\ start_rows' = <<Len(db_trends), Len(db_alerts)>>
    /\ ok_tokens' = << >>
    /\ attempts' = << >>
    /\ UNCHANGED <<tokenizer, dashboard, feed, previous_trends, tx_trends, tx_alerts, db_trends, db_alerts,
                   base_words, saved_words>>

(* One iteration of the loop over subreddits[:2] that raises nothing:      *)
(* requests.get answers with status_code and posts, then time.sleep(1).     *)
Fetch(status_code, tokens) ==
    /\ pc = "scrape"
    /\ idx <= NumSubs
    /\ all_words' = all_words \o ResponseWords(status_code, tokens)
    /\ idx' = idx + 1
    /\ ok_tokens' = IF status_code = StatusOK THEN ok_tokens \o tokens
                    ELSE ok_tokens
    /\ attempts' = Append(attempts, IF status_code = StatusOK THEN "ok" ELSE "status")
    /\ UNCHANGED <<tokenizer, dashboard, feed, pc, words, trends, previous_trends, tx_trends, tx_alerts,
                   db_trends, db_alerts, cycle, start_prev, start_rows,
                   base_words, saved_words>>

FetchOk == \E tokens \in Docs(feed, idx) : Fetch(StatusOK, tokens)

FetchStatus == \E tokens \in Docs(feed, idx) : Fetch(StatusBusy, tokens)

(* An iteration raises (connection error, timeout, response.json() or the  *)
(* payload access fails): "except Exception" returns [], and run_cycle      *)
(* returns at "if not words"; run_forever goes to time.sleep(600).          *)
FetchRaise ==
    /\ pc = "scrape"
    /\ idx <= NumSubs
    /\ attempts' = Append(attempts, "raise")
    /\ words' = << >>
    /\ pc' = IF NoWords(words') THEN "sleep600" ELSE "detect"
    /\ UNCHANGED <<tokenizer, dashboard, feed, idx, all_words, trends, previous_trends, tx_trends, tx_alerts,
                   db_trends, db_alerts, cycle, start_prev, start_rows,
                   ok_tokens, base_words, saved_words>>

(* The loop is over: return all_words; run_cycle tests "if not words" *)
ScrapeReturn ==
    /\ pc = "scrape"
    /\ idx > NumSubs
    /\ words' = all_words
    /\ pc' = IF NoWords(words') THEN "sleep600" ELSE "detect"
    /\ UNCHANGED <<tokenizer, dashboard, feed, idx, all_words, trends, previous_trends, tx_trends, tx_alerts,
                   db_trends, db_alerts, cycle, start_prev, start_rows,
                   ok_tokens, attempts, base_words, saved_words>>

(* trends = self.detect_trends(words) *)
Detect ==
    /\ pc = "detect"
    /\ trends' = DetectAlerts(previous_trends, words)
    /\ previous_trends' = DetectState(previous_trends, words)
    /\ base_words' = IF words = << >> THEN base_words ELSE words
    /\ pc' = "save"
    /\ UNCHANGED <<tokenizer, dashboard, feed, idx, all_words, words, tx_trends, tx_alerts, db_trends,
                   db_alerts, cycle, start_prev, start_rows, ok_tokens,
                   attempts, saved_words>>

(* A connection of an earlier save_data call whose commit failed is still *)
(* open: save_data has no try/finally, conn.close() was not reached and the *)
(* connection is closed only when the garbage collector finds it.  Its      *)
(* rows are pending and it holds the lock on the database file.             *)
Leaked ==
    /\ pc \notin {"commit", "committing"}
    /\ (tx_trends # << >> \/ tx_alerts # << >>)

(* No reader can start.  The lock of a leaked connection keeps readers     *)
(* out, and so does conn.commit() of the running save_data call while it    *)
(* waits for a reader of another connection to finish: it holds the        *)
(* pending lock until it has the file to itself or gives up.                *)
Locked == Leaked \/ pc = "committing"

(* save_data up to conn.commit(): connect and the INSERTs.  While the lock *)
(* is held by a leaked connection the first INSERT raises "database is      *)
(* locked" (SaveFail).                                                      *)
SaveInsert ==
    /\ pc = "save"
    /\ ~Leaked
    /\ tx_trends' = TrendRows(words, cycle)
    /\ tx_alerts' = AlertRows(trends, cycle)
    /\ pc' = "commit"
    /\ UNCHANGED <<tokenizer, dashboard, feed, idx, all_words, words, trends, previous_trends, db_trends,
                   db_alerts, cycle, start_prev, start_rows, ok_tokens,
                   attempts, base_words, saved_words>>

(* conn.commit() finds a reader of another connection at work and waits  *)
(* for it, up to the busy timeout; meanwhile no new reader gets in.         *)
CommitWait ==
    /\ pc = "commit"
    /\ pc' = "committing"
    /\ UNCHANGED <<tokenizer, dashboard, feed, idx, all_words, words, trends, previous_trends, tx_trends,
                   tx_alerts, db_trends, db_alerts, cycle, start_prev,
                   start_rows, ok_tokens, attempts, base_words, saved_words>>

(* conn.commit() returns, at once or after its wait; conn.close() *)
SaveCommit ==
    /\ pc \in {"commit", "committing"}
    /\ db_trends' = db_trends \o tx_trends
    /\ db_alerts' = db_alerts \o tx_alerts
    /\ tx_trends' = << >>
    /\ tx_alerts' = << >>
    /\ saved_words' = words
    /\ pc' = "print"
    /\ UNCHANGED <<tokenizer, dashboard, feed, idx, all_words, words, trends, previous_trends, cycle,
                   start_prev, start_rows, ok_tokens, attempts, base_words>>

(* Whether the rows of the open transaction may stay pending when         *)
(* save_data fails at position at.  A failure of connect or of the first    *)
(* INSERT (position "save") changes nothing that is pending.  After a       *)
(* failed conn.commit() there is no rollback and no close: either SQLite    *)
(* has rolled the transaction back itself (disk full, I/O error) or the     *)
(* rows stay pending on the open connection, which keeps its lock           *)
(* (database busy).                                                         *)
KeptAfterFailure(at) ==
    IF at \in {"commit", "committing"} THEN BOOLEAN ELSE {TRUE}

(* save_data raises (sqlite3 error in connect, execute or commit):         *)
(* run_forever's "except Exception" logs it and goes to time.sleep(60).     *)
SaveFail ==
    /\ pc \in {"save", "commit", "committing"}
    /\ \E kept \in KeptAfterFailure(pc) :
          /\ tx_trends' = IF kept THEN tx_trends ELSE << >>
          /\ tx_alerts' = IF kept THEN tx_alerts ELSE << >>
    /\ pc' = Caught("Exception", pc)
    /\ UNCHANGED <<tokenizer, dashboard, feed, idx, all_words, words, trends, previous_trends, db_trends,
                   db_alerts, cycle, start_prev, start_rows, ok_tokens,
                   attempts, base_words, saved_words>>

(* self.print_trends(trends) and the "Cycle complete" line *)
PrintTrends ==
    /\ pc = "print"
    /\ pc' = "sleep600"
    /\ UNCHANGED <<tokenizer, dashboard, feed, idx, all_words, words, trends, previous_trends, tx_trends,
                   tx_alerts, db_trends, db_alerts, cycle, start_prev,
                   start_rows, ok_tokens, attempts, base_words, saved_words>>

(* The garbage collector finds the connection a failed save_data call left *)
(* open and closes it: the pending rows are rolled back and the lock is     *)
(* released.  When it runs is not the program's choice.                     *)
CollectGarbage ==
    /\ Leaked
    /\ tx_trends' = << >>
    /\ tx_alerts' = << >>
    /\ UNCHANGED <<tokenizer, dashboard, feed, pc, idx, all_words, words, trends,
                   previous_trends, db_trends, db_alerts, cycle, start_prev,
                   start_rows, ok_tokens, attempts, base_words, saved_words>>

(* time.sleep(600) or time.sleep(60) returns: back to "while True".  The  *)
(* locals of the finished run_cycle call are gone.                          *)
Wake ==
    /\ pc \in {"sleep600", "sleep60"}
    /\ pc' = "loop"
    /\ idx' = 1
    /\ all_words' = << >>
    /\ words' = << >>
    /\ trends' = << >>
    /\ ok_tokens' = << >>
    /\ attempts' = << >>
    /\ start_prev' = previous_trends
    /\ start_rows' = <<Len(db_trends), Len(db_alerts)>>
    /\ UNCHANGED <<tokenizer, dashboard, feed, previous_trends, tx_trends, tx_alerts, db_trends,
                   db_alerts, cycle, base_words, saved_words>>

(* KeyboardInterrupt is raised at the point the main thread is at.  Inside *)
(* the try block it reaches "except KeyboardInterrupt: break" (it is no     *)
(* Exception, so scrape_reddit does not catch it); at "while True:" or      *)
(* "try:", in the first logger.info and inside the handler's time.sleep(60) *)
(* it leaves run_forever uncaught.  So does a second signal that arrives    *)
(* while "except KeyboardInterrupt" is in its logger.info, before "break":  *)
(* it is raised inside the handler.  Either way the process ends: an open   *)
(* transaction is never committed and the locals of run_cycle are gone.     *)
Interrupt ==
    /\ pc \notin {"stopped", "killed"}
    /\ \E again \in BOOLEAN :
          pc' = IF again THEN "killed" ELSE Caught("KeyboardInterrupt", pc)
    /\ tx_trends' = << >>
    /\ tx_alerts' = << >>
    /\ idx' = 1
    /\ all_words' = << >>
    /\ words' = << >>
    /\ trends' = << >>
    /\ ok_tokens' = << >>
    /\ attempts' = << >>
    /\ UNCHANGED <<tokenizer, dashboard, feed, previous_trends, db_trends,
                   db_alerts, cycle, start_prev, start_rows, base_words,
                   saved_words>>

Step ==
    \/ StartCycle
    \/ FetchOk
    \/ FetchStatus
    \/ FetchRaise
    \/ ScrapeReturn
    \/ Detect
    \/ SaveInsert
    \/ CommitWait
    \/ SaveCommit
    \/ SaveFail
    \/ PrintTrends
    \/ CollectGarbage
    \/ Wake

Next == Step \/ Interrupt

(* clean_text called on a text, by itself *)

(* What the texts are made of *)
Pieces ==
    { codes("abcd"), codes("Abc"), codes("this"), codes("#"),
      codes("#abcd"), codes(" "), codes("("), codes(")"), codes("http"),
      codes("1") }

(* Characters outside ASCII and the line feed: capital sigma, the Kelvin   *)
(* sign, capital I with dot above, capital E with acute, modifier letter   *)
(* small h, em space, the Greek capital U+03FD, the N'Ko digit one, line   *)
(* feed                                                                     *)
SpecialPieces ==
    { codes("abcd"), codes("#"), codes("("), codes(")"), <<CapitalSigma>>,
      <<8490>>, <<DottedCapitalI>>, <<201>>, <<688>>, <<8195>>, <<1021>>,
      <<1985>>, <<LineFeed>> }

RECURSIVE Concat(_)
Concat(ps) == IF ps = << >> THEN << >> ELSE Head(ps) \o Concat(Tail(ps))

PieceTexts ==
    {Concat(ps) : ps \in UNION {[1..n -> Pieces] : n \in 0..MaxPieces}}

SpecialTexts ==
    {Concat(ps) : ps \in UNION {[1..n -> SpecialPieces] : n \in 1..MaxSpecial}}

(* The texts clean_text is called on, None among them *)
Texts == {t : t \in PieceTexts \cup SpecialTexts \cup {None}}

TokInit ==
    /\ text \in Texts
    /\ cleaned = << >>
    /\ tpc = "call"
    /\ feed = "narrow"
    /\ pc = "loop"
    /\ idx = 1
    /\ all_words = << >>
    /\ words = << >>
    /\ trends = << >>
    /\ previous_trends = Empty
    /\ tx_trends = << >>
    /\ tx_alerts = << >>
    /\ db_trends = << >>
    /\ db_alerts = << >>
    /\ cycle = 0
    /\ start_prev = Empty
    /\ start_rows = <<0, 0>>
    /\ ok_tokens = << >>
    /\ attempts = << >>
    /\ base_words = << >>
    /\ saved_words = << >>
    /\ now = 0
    /\ result = << >>
    /\ timeframe = ""
    /\ stats = NoStats
    /\ rpc = "idle"

(* words = self.clean_text(title + ' ' + selftext) *)
CleanText ==
    /\ tpc = "call"
    /\ cleaned' = clean_text(text)
    /\ tpc' = "return"
    /\ UNCHANGED <<text, dashboard, feed, pc, idx, all_words, words, trends,
                   previous_trends, tx_trends, tx_alerts, db_trends, db_alerts,
                   cycle, start_prev, start_rows, ok_tokens, attempts,
                   base_words, saved_words>>

TokNext == CleanText

TokSpec == TokInit /\ [][TokNext]_vars

Spec == Init /\ [][Next]_vars

(* time.sleep returns and "while True" starts the next cycle; the stop    *)
(* signal is the environment's and need not come.                           *)
LiveSpec == Spec /\ WF_vars(Wake) /\ WF_vars(StartCycle)

----------------------------------------------------------------------------
(* Properties *)

Occ(ws, w) == Cardinality({j \in DOMAIN ws : ws[j] = w})

ScrapeOver ==
    pc \in {"detect", "save", "commit", "committing", "print", "sleep600",
            "sleep60"}

NoRowSince == /\ Len(db_trends) = start_rows[1]
              /\ Len(db_alerts) = start_rows[2]

(* C1: when save_data fails in a cycle, previous_trends after the cycle is *)
(* the baseline the cycle started with.                                     *)
C1_FailedSaveKeepsBaseline ==
    pc = "sleep60" => previous_trends = start_prev

(* No row with the timestamp of the current cycle is in an open          *)
(* transaction                                                              *)
NoRowPending ==
    /\ \A i \in DOMAIN tx_trends : tx_trends[i].timestamp # cycle
    /\ \A i \in DOMAIN tx_alerts : tx_alerts[i].timestamp # cycle

(* C2: when no fetch of the cycle succeeds, the cycle is skipped:          *)
(* detect_trends and save_data are not reached, previous_trends is the      *)
(* baseline the cycle started with and no row is inserted or committed.     *)
C2_AllFetchesFailSkipsCycle ==
    (ScrapeOver /\ \A i \in DOMAIN attempts : attempts[i] # "ok")
        => /\ pc = "sleep600"
           /\ previous_trends = start_prev
           /\ NoRowSince
           /\ NoRowPending

C2_Witness ==
    /\ pc = "sleep600"
    /\ attempts = <<"status", "status">>
    /\ previous_trends # Empty
    /\ db_trends # << >>

(* C3: when one fetch of a cycle fails and another succeeds, every         *)
(* identifier is still fetched and the tokens of all successful fetches     *)
(* are the words the cycle classifies and persists.                         *)
C3_FailedFetchKeepsOthers ==
    (/\ ScrapeOver
     /\ \E i \in DOMAIN attempts : attempts[i] = "ok"
     /\ \E i \in DOMAIN attempts : attempts[i] # "ok")
        => /\ Len(attempts) = NumSubs
           /\ words = ok_tokens

(* C4: previous_trends never has more than 100 entries, and it is empty    *)
(* until the first cycle has run.                                           *)
C4_BaselineBounded ==
    /\ Cardinality(DOMAIN previous_trends) <= 100
    /\ (cycle = 0 => previous_trends = Empty)

C4_Witness ==
    /\ Cardinality(Range(base_words)) > 100
    /\ Cardinality(DOMAIN previous_trends) = 100
    /\ cycle >= 2

(* The words of ws with their number of occurrences and the position they  *)
(* are first seen at, indexed by token.                                     *)
Top(ws) == IF ws = << >> THEN 0
           ELSE CHOOSE w \in Range(ws) : \A v \in Range(ws) : v <= w

OccOf(ws) == list([w \in 1..Top(ws) |-> Occ(ws, w)])

SeenAt(ws) ==
    list([w \in 1..Top(ws) |->
            IF w \in Range(ws) THEN CHOOSE i \in DOMAIN ws :
                                      ws[i] = w /\ \A j \in 1..(i - 1) : ws[j] # w
            ELSE 0])

(* Number of words ranked ahead of w: more occurrences, or as many and     *)
(* first seen earlier.                                                      *)
Ahead(occ, at, toks, w) ==
    Cardinality({v \in toks : \/ occ[v] > occ[w]
                              \/ occ[v] = occ[w] /\ at[v] < at[w]})

(* C5: every alert of the cycle carries the word's number of occurrences;  *)
(* a "new" alert has a word absent from the baseline held at the start of   *)
(* the call, count >= 3 and change 0; a "spike" alert has a baseline count  *)
(* prev > 0, (count - prev) * 100 >= 50 * prev and change equal to          *)
(* (count - prev) / prev * 100.                                             *)
C5_AlertsSound ==
    \A i \in DOMAIN trends :
        LET t    == trends[i]
            prev == IF t.word \in DOMAIN start_prev THEN start_prev[t.word] ELSE 0
        IN  /\ t.type \in {"new", "spike"}
            /\ t.count = Occ(words, t.word)
            /\ t.type = "new" =>
                  /\ t.word \notin DOMAIN start_prev
                  /\ prev = 0
                  /\ t.count >= 3
                  /\ t.change.num = 0
            /\ t.type = "spike" =>
                  /\ prev > 0
                  /\ (t.count - prev) * 100 >= 50 * prev
                  /\ t.change.den > 0
                  /\ t.change.num * prev = (t.count - prev) * 100 * t.change.den

(* A new alert next to a spike of exactly 50 percent *)
C5_Witness ==
    /\ pc = "save"
    /\ \E i \in DOMAIN trends : trends[i].type = "new"
    /\ \E i \in DOMAIN trends :
          /\ trends[i].type = "spike"
          /\ trends[i].change = [num |-> 50, den |-> 1]

(* The kind of alert the word w is due, "none" if it is due no alert *)
Due(occ, at, toks, base, w) ==
    LET prev == IF w \in DOMAIN base THEN base[w] ELSE 0
    IN  IF Ahead(occ, at, toks, w) < 30 /\ occ[w] >= 3 /\ w \notin DOMAIN base
        THEN "new"
        ELSE IF /\ Ahead(occ, at, toks, w) < 30 /\ occ[w] >= 2
                /\ prev > 0 /\ (occ[w] - prev) * 100 >= 50 * prev
             THEN "spike"
             ELSE "none"

(* C6: when detect_trends has returned, the alerts are exactly one alert   *)
(* of the due kind for every word that is due one, and no word has two.     *)
C6_AlertsExact ==
    pc = "save" =>
        LET occ  == OccOf(words)
            at   == SeenAt(words)
            toks == Range(words)
        IN  /\ \A i \in DOMAIN trends :
                  /\ trends[i].word \in toks
                  /\ trends[i].type = Due(occ, at, toks, start_prev, trends[i].word)
                  /\ trends[i].count = occ[trends[i].word]
            /\ \A w \in toks :
                  Due(occ, at, toks, start_prev, w) # "none"
                      => \E i \in DOMAIN trends : trends[i].word = w
            /\ \A i, j \in DOMAIN trends :
                  trends[i].word = trends[j].word => i = j

(* 30 alerts, and a word with 3 occurrences that the baseline does not     *)
(* know gets none because it is ranked behind them.                         *)
C6_Witness ==
    /\ pc = "save"
    /\ Len(trends) = 30
    /\ \E w \in Range(words) :
          /\ Occ(words, w) >= 3
          /\ w \notin DOMAIN start_prev
          /\ \A i \in DOMAIN trends : trends[i].word # w
    /\ \E w \in Range(words) : w \in DOMAIN start_prev

(* C7: when a cycle has been committed, previous_trends maps exactly the   *)
(* 100 best ranked words of the cycle (all of them if there are at most     *)
(* 100) to their number of occurrences; every retained word is ranked       *)
(* ahead of every dropped one: more occurrences, or as many and first seen  *)
(* earlier.                                                                 *)
C7_BaselineIsTop100 ==
    pc = "print" =>
        LET occ  == OccOf(words)
            at   == SeenAt(words)
            toks == Range(words)
            kept == DOMAIN previous_trends
        IN  /\ kept \subseteq toks
            /\ \A w \in kept : previous_trends[w] = occ[w]
            /\ Cardinality(kept) = IF Cardinality(toks) <= 100
                                   THEN Cardinality(toks) ELSE 100
            /\ \A w \in kept : \A v \in toks \ kept :
                  \/ occ[w] > occ[v]
                  \/ occ[w] = occ[v] /\ at[w] < at[v]

(* More than 100 words: one is dropped in favour of a word seen later with *)
(* more occurrences, and of a word with as many occurrences seen earlier.   *)
C7_Witness ==
    /\ pc = "print"
    /\ Cardinality(Range(words)) > 100
    /\ \E v \in Range(words) \ DOMAIN previous_trends :
          /\ \E w \in DOMAIN previous_trends :
                Occ(words, w) > Occ(words, v) /\ w > v
          /\ \E w \in DOMAIN previous_trends :
                Occ(words, w) = Occ(words, v) /\ w < v

(* The baseline a committed cycle with words ws leaves: its 100 best       *)
(* ranked words with their number of occurrences.                           *)
BaselineOf(ws) ==
    LET occ  == OccOf(ws)
        at   == SeenAt(ws)
        toks == Range(ws)
    IN  [w \in {v \in toks : Ahead(occ, at, toks, v) < 100} |-> occ[w]]

(* ts holds exactly the alerts due for words ws over the baseline base *)
AlertsDue(ts, ws, base) ==
    LET occ  == OccOf(ws)
        at   == SeenAt(ws)
        toks == Range(ws)
    IN  /\ \A i \in DOMAIN ts :
              /\ ts[i].word \in toks
              /\ ts[i].type = Due(occ, at, toks, base, ts[i].word)
        /\ \A w \in toks :
              Due(occ, at, toks, base, w) # "none"
                  => \E i \in DOMAIN ts : ts[i].word = w

DetectStep == pc = "detect" /\ pc' = "save"

AlphaAlert(count, type, change) ==
    [word |-> 1, count |-> count, type |-> type, change |-> change]

(* C8: when the last cycle that reached detect_trends was committed, the   *)
(* alerts of the current cycle are the ones due for its words over the      *)
(* counts of that last cycle alone; with alpha counted 3, 5 and 6 in        *)
(* consecutive cycles from an empty baseline the alerts are a new alert,    *)
(* a spike of 200/3 percent and none.                                       *)
C8_SingleLag ==
    [][(DetectStep /\ base_words = saved_words) =>
          /\ AlertsDue(trends', words, BaselineOf(saved_words))
          /\ (saved_words = << >> /\ words = Rep(1, 3))
                => trends' = << AlphaAlert(3, "new", Zero) >>
          /\ (saved_words = Rep(1, 3) /\ words = Rep(1, 5))
                => trends' = << AlphaAlert(5, "spike", [num |-> 200, den |-> 3]) >>
          /\ (saved_words = Rep(1, 5) /\ words = Rep(1, 6))
                => trends' = << >>
      ]_vars

(* The third cycle gives beta a new alert: beta was committed in the first *)
(* cycle and did not occur in the committed second one.                     *)
C8_Witness ==
    /\ pc = "save"
    /\ cycle = 3
    /\ \E i \in DOMAIN trends : trends[i].word = 2 /\ trends[i].type = "new"
    /\ \E r \in DOMAIN db_trends :
          db_trends[r].word = 2 /\ db_trends[r].timestamp = 1
    /\ \E r \in DOMAIN db_trends : db_trends[r].timestamp = 2
    /\ \A r \in DOMAIN db_trends :
          db_trends[r].timestamp = 2 => db_trends[r].word # 2

Exited == pc \in {"stopped", "killed"}

(* C9: run_forever exits on a stop signal only between cycles: at the top  *)
(* of the loop or in one of the sleeps that follow a cycle.                 *)
C9_StopOnlyBetweenCycles ==
    [][(~Exited /\ Exited') => pc \in {"loop", "sleep600", "sleep60"}]_vars

(* C10: only a stop signal ends the loop, and after every cycle, failed,   *)
(* skipped or complete, the next cycle starts unless a stop signal comes    *)
(* (as long as the model has a next cycle).                                 *)
C10_LoopSurvivesErrors ==
    /\ [][(~Exited /\ Exited') => Interrupt]_vars
    /\ \A n \in 1..(MaxCycles - 1) :
          (cycle = n /\ pc \in {"sleep60", "sleep600"})
              ~> (Exited \/ (cycle = n + 1 /\ pc = "scrape"))

(* The second cycle has started after a first one whose save_data failed *)
C10_Witness ==
    /\ pc = "scrape"
    /\ cycle = 2
    /\ base_words # << >>
    /\ db_trends = << >>
    /\ previous_trends # Empty

(* The committed trend rows of the cycle with timestamp ts *)
RowsOf(ts) == SelectSeq(db_trends, LAMBDA r : r.timestamp = ts)

(* C11: when a cycle has been committed, the trend rows of the cycle are   *)
(* one row for every distinct word of the cycle's words, with the word's    *)
(* number of occurrences, and their counts add up to the number of words.   *)
C11_FullTablePersisted ==
    pc = "print" =>
        LET rows == RowsOf(cycle)
        IN  /\ \A w \in Range(words) :
                  /\ Cardinality({r \in DOMAIN rows : rows[r].word = w}) = 1
                  /\ \A r \in DOMAIN rows :
                        rows[r].word = w => rows[r].count = Occ(words, w)
            /\ \A r \in DOMAIN rows : rows[r].word \in Range(words)
            /\ Cardinality(UNION {{<<r, k>> : k \in 1..rows[r].count} :
                                      r \in DOMAIN rows}) = Len(words)

(* More rows than words are classified *)
C11_Witness ==
    /\ pc = "print"
    /\ Len(RowsOf(cycle)) > 30
    /\ Len(RowsOf(cycle)) = Cardinality(Range(words))
    /\ Len(words) > Len(RowsOf(cycle))

(* C12: the alerts come in ranking order, more occurrences first and,      *)
(* among words of as many occurrences, the word seen first; the alerted     *)
(* words have fewer than 30 words ranked ahead of them, so of the words     *)
(* tied at the cut the ones seen first are classified.                      *)
C12_RankingOrder ==
    pc = "save" =>
        LET occ  == OccOf(words)
            at   == SeenAt(words)
            toks == Range(words)
        IN  /\ \A i, j \in DOMAIN trends :
                  i < j =>
                     LET w == trends[i].word
                         v == trends[j].word
                     IN  \/ occ[w] > occ[v]
                         \/ occ[w] = occ[v] /\ at[w] < at[v]
            /\ \A i \in DOMAIN trends :
                  Ahead(occ, at, toks, trends[i].word) < 30

(* 30 alerts for words tied with a word seen later that gets none; and a   *)
(* cycle whose second word has more occurrences than its first.             *)
C12_Witness ==
    /\ pc = "save"
    /\ Len(trends) = 30
    /\ \E w \in Range(words) :
          /\ \A i \in DOMAIN trends :
                /\ trends[i].word # w
                /\ trends[i].count = Occ(words, w)
                /\ trends[i].word < w
          /\ w \notin DOMAIN start_prev
    /\ words[1] # trends[1].word

Sleeping == pc \in {"sleep600", "sleep60"}

(* C15: run_forever sleeps 60 seconds exactly after a cycle that raised    *)
(* into its handler and 600 seconds after a cycle that returned, complete   *)
(* or skipped; the sleep starts when the cycle ends, and a cycle starts     *)
(* only at the top of the loop, which is reached only from a sleep.         *)
C15_DelayAndNoOverlap ==
    [][/\ (~Sleeping /\ Sleeping') =>
              /\ pc \in {"scrape", "save", "commit", "committing", "print"}
              /\ SleepSeconds(pc') = IF SaveFail THEN 60 ELSE 600
       /\ SaveFail => Sleeping' /\ SleepSeconds(pc') = 60
       /\ cycle' # cycle =>
              /\ pc = "loop" /\ pc' = "scrape" /\ cycle' = cycle + 1
       /\ (pc # "loop" /\ pc' = "loop") => Sleeping
       /\ (Sleeping /\ pc' # pc) => (pc' = "loop" \/ Exited')
      ]_vars

(* The second cycle raised after the first one completed *)
C15_Witness ==
    /\ pc = "sleep60"
    /\ cycle = 2
    /\ db_trends # << >>
    /\ \A r \in DOMAIN db_trends : db_trends[r].timestamp = 1

(* C16: a cycle in which every fetch succeeds and no token is collected    *)
(* is skipped: detect_trends and save_data are not reached, no row is       *)
(* written and previous_trends stays what it was; the alerts of a later     *)
(* cycle are those due over the counts of the last cycle that had words.    *)
C16_EmptyCycleKeepsBaseline ==
    /\ []((/\ ScrapeOver
           /\ Len(attempts) = NumSubs
           /\ \A i \in DOMAIN attempts : attempts[i] = "ok"
           /\ ok_tokens = << >>)
              => /\ pc = "sleep600"
                 /\ previous_trends = start_prev
                 /\ NoRowSince
                 /\ NoRowPending)
    /\ [][DetectStep => AlertsDue(trends', words, BaselineOf(base_words))]_vars

C16_Witness ==
    /\ pc = "sleep600"
    /\ attempts = <<"ok", "ok">>
    /\ ok_tokens = << >>
    /\ previous_trends # Empty
    /\ db_trends # << >>

(* C18: every committed alert row has a committed trend row with the same  *)
(* word, count and timestamp; its type is "new" with change_percent 0 or    *)
(* "spike" with change_percent at least 50.                                 *)
C18_AlertRowsMatchTrendRows ==
    \A a \in DOMAIN db_alerts :
        LET row == db_alerts[a]
        IN  /\ \E t \in DOMAIN db_trends :
                  /\ db_trends[t].word = row.word
                  /\ db_trends[t].count = row.count
                  /\ db_trends[t].timestamp = row.timestamp
            /\ row.alert_type \in {"new", "spike"}
            /\ row.alert_type = "new" => row.change_percent.num = 0
            /\ row.alert_type = "spike" =>
                  /\ row.change_percent.den > 0
                  /\ row.change_percent.num >= 50 * row.change_percent.den

C18_Witness ==
    /\ \E a \in DOMAIN db_alerts : db_alerts[a].alert_type = "new"
    /\ \E a \in DOMAIN db_alerts :
          /\ db_alerts[a].alert_type = "spike"
          /\ db_alerts[a].timestamp = 3

----------------------------------------------------------------------------
(* The dashboard (src/app.py) reading the database while save_data writes  *)

(* Seconds in a hundredth of an hour: timedelta(hours = hours) *)
CentiHour == 36

(* The clock when the requests are served *)
Clock == 200000

(* hours_map.get(timeframe, 1), in hundredths of an hour *)
hours_map_get(tf) ==
    CASE tf = "10min"  -> TenMinutes
      [] tf = "1hour"  -> OneHour
      [] tf = "6hour"  -> SixHours
      [] tf = "24hour" -> FullDay
      [] OTHER         -> OneHour

RECURSIVE SumCounts(_)
SumCounts(rows) ==
    IF rows = << >> THEN 0 ELSE Head(rows).count + SumCounts(Tail(rows))

(* SQL leaves the order of rows of equal total_count open.  SQLite gives   *)
(* them in the order of the GROUP BY key (word, source), ascending; the    *)
(* source is 'reddit' in every row save_data writes.                        *)
TieOrders == {"ascending", "descending"}

KeyBefore(word1, word2, order) ==
    IF order = "ascending" THEN word1 < word2 ELSE word1 > word2

(* Faulty variant: the rows of every age are aggregated *)
get_recent_trends_all_time(rows, clock, hours, order) ==
    LET inwin  == rows
        keys   == list([i \in DOMAIN inwin |-> <<inwin[i].word, inwin[i].source>>])
        first  == FirstSeen(keys)
        groups == list([k \in DOMAIN first |->
                      <<keys[first[k]][1],
                        SumCounts(SelectSeq(inwin,
                            LAMBDA r : <<r.word, r.source>> = keys[first[k]])),
                        keys[first[k]][2]>>])
        ahead  == list([i \in DOMAIN groups |->
                      Cardinality({j \in DOMAIN groups :
                          \/ groups[j][2] > groups[i][2]
                          \/ /\ groups[j][2] = groups[i][2]
                             /\ KeyBefore(groups[j][1], groups[i][1], order)})])
        sorted == list([r \in DOMAIN groups |->
                      groups[CHOOSE i \in DOMAIN groups : ahead[i] = r - 1]])
    IN  SubSeq(sorted, 1, Min(Limit, Len(sorted)))

(* SELECT word, SUM(count) as total_count, source FROM trends              *)
(* WHERE timestamp > cutoff GROUP BY word, source                          *)
(* ORDER BY total_count DESC LIMIT 20                                       *)
get_recent_trends(rows, clock, hours, order) ==
    LET cutoff == clock - hours * CentiHour
        inwin  == SelectSeq(rows, LAMBDA r : r.timestamp > cutoff)
        keys   == list([i \in DOMAIN inwin |-> <<inwin[i].word, inwin[i].source>>])
        first  == FirstSeen(keys)
        groups == list([k \in DOMAIN first |->
                      <<keys[first[k]][1],
                        SumCounts(SelectSeq(inwin,
                            LAMBDA r : <<r.word, r.source>> = keys[first[k]])),
                        keys[first[k]][2]>>])
        ahead  == list([i \in DOMAIN groups |->
                      Cardinality({j \in DOMAIN groups :
                          \/ groups[j][2] > groups[i][2]
                          \/ /\ groups[j][2] = groups[i][2]
                             /\ KeyBefore(groups[j][1], groups[i][1], order)})])
        sorted == list([r \in DOMAIN groups |->
                      groups[CHOOSE i \in DOMAIN groups : ahead[i] = r - 1]])
    IN  SubSeq(sorted, 1, Min(Limit, Len(sorted)))

(* timestamp > datetime('now', '-24 hours') compares the isoformat text    *)
(* 'YYYY-MM-DDTHH:MM:SS' of the row with 'YYYY-MM-DD HH:MM:SS': the dates  *)
(* decide, and on equal dates 'T' is above ' '.  The monitor's local time  *)
(* is taken to be UTC.                                                      *)
InLastDay(timestamp, clock) ==
    timestamp \div DaySeconds >= (clock - DaySeconds) \div DaySeconds

(* SELECT COUNT of the rows WHERE timestamp > datetime('now', '-24 hours') *)
count_rows(rows, clock) ==
    Len(SelectSeq(rows, LAMBDA r : InLastDay(r.timestamp, clock)))

(* SELECT COUNT(DISTINCT word) FROM trends WHERE ... *)
count_distinct_words(rows, clock) ==
    Cardinality({rows[i].word : i \in {j \in DOMAIN rows :
                                          InLastDay(rows[j].timestamp, clock)}})

(* The response with more distinct tokens than get_recent_trends returns *)
Crowd == Run(1, Limit + Spare) \o Run(Limit, Limit + Spare)

(* How old the rows of the first and of the second cycle are, in seconds *)
FirstAges  == {90000, 21600, 4300}
SecondAges == {3600, 612, 611}

(* The cycle being saved started this long ago *)
SaveAge == 5

(* The monitor has committed a cycle on the crowded response and one on a  *)
(* short response, and is in save_data for a third; a request arrives.      *)
DashInit ==
    \E age1 \in FirstAges, age2 \in SecondAges, second \in {Alpha3, Beta3},
       third \in {Alpha3, Beta3} :
        LET state1 == DetectState(Empty, Crowd)
            state2 == DetectState(state1, second)
        IN  /\ db_trends = TrendRows(Crowd, Clock - age1)
                               \o TrendRows(second, Clock - age2)
            /\ db_alerts = AlertRows(DetectAlerts(Empty, Crowd), Clock - age1)
                               \o AlertRows(DetectAlerts(state1, second), Clock - age2)
            /\ words = third
            /\ trends = DetectAlerts(state2, third)
            /\ previous_trends = DetectState(state2, third)
            /\ start_prev = state2
            /\ base_words = third
            /\ saved_words = second
    /\ start_rows = <<Len(db_trends), Len(db_alerts)>>
    /\ cycle = Clock - SaveAge
    /\ now = Clock
    /\ pc = "save"
    /\ feed = "narrow"
    /\ idx = NumSubs + 1
    /\ all_words = words
    /\ ok_tokens = words
    /\ attempts = << >>
    /\ tx_trends = << >>
    /\ tx_alerts = << >>
    /\ text = << >>
    /\ cleaned = << >>
    /\ tpc = "idle"
    /\ timeframe = ""
    /\ result = << >>
    /\ stats = NoStats
    /\ rpc = "idle"

monitor == <<feed, pc, idx, all_words, words, trends, previous_trends,
             tx_trends, tx_alerts, db_trends, db_alerts, cycle, start_prev,
             start_rows, ok_tokens, attempts, base_words, saved_words>>

(* /api/trends/<timeframe>: db.get_recent_trends(hours) *)
GetTrends(tf) ==
    /\ rpc = "idle"
    /\ ~Locked
    /\ timeframe' = tf
    /\ \E order \in TieOrders :
          result' = get_recent_trends(db_trends, now, hours_map_get(tf), order)
    /\ rpc' = "trends"
    /\ UNCHANGED <<monitor, tokenizer, now, stats>>

(* /api/stats: the first SELECT, total_trends *)
StatsTotal ==
    /\ rpc = "idle"
    /\ ~Locked
    /\ stats' = [NoStats EXCEPT !.total_trends = count_rows(db_trends, now)]
    /\ rpc' = "stats1"
    /\ UNCHANGED <<monitor, tokenizer, now, timeframe, result>>

(* the second SELECT, unique_words *)
StatsUnique ==
    /\ rpc = "stats1"
    /\ ~Locked
    /\ stats' = [stats EXCEPT !.unique_words = count_distinct_words(db_trends, now)]
    /\ rpc' = "stats2"
    /\ UNCHANGED <<monitor, tokenizer, now, timeframe, result>>

(* the third SELECT, alerts_today *)
StatsAlerts ==
    /\ rpc = "stats2"
    /\ ~Locked
    /\ stats' = [stats EXCEPT !.alerts_today = count_rows(db_alerts, now)]
    /\ rpc' = "stats3"
    /\ UNCHANGED <<monitor, tokenizer, now, timeframe, result>>

(* cursor.execute of a request raises OperationalError "database is      *)
(* locked" while a leaked connection of the monitor holds the lock or its   *)
(* conn.commit() waits for another reader; no handler catches it and        *)
(* nothing read so far is returned.                                         *)
ReadLocked ==
    /\ rpc \in {"idle", "stats1", "stats2"}
    /\ Locked
    /\ rpc' = "error"
    /\ result' = << >>
    /\ stats' = NoStats
    /\ UNCHANGED <<monitor, tokenizer, now, timeframe>>

(* return jsonify(...), or the error response: the handler's locals are    *)
(* gone                                                                     *)
Respond ==
    /\ rpc \in {"trends", "stats3", "error"}
    /\ rpc' = "idle"
    /\ timeframe' = ""
    /\ result' = << >>
    /\ stats' = NoStats
    /\ UNCHANGED <<monitor, tokenizer, now>>

Timeframes == {"10min", "1hour", "6hour", "24hour", "week"}

DashNext ==
    \/ SaveInsert
    \/ CommitWait
    \/ SaveCommit
    \/ SaveFail
    \/ CollectGarbage
    \/ ReadLocked
    \/ \E tf \in Timeframes : GetTrends(tf)
    \/ StatsTotal
    \/ StatsUnique
    \/ StatsAlerts
    \/ Respond

DashSpec == DashInit /\ [][DashNext]_vars

(* ---- clean_text: what the token sequence consists of ---- *)

(* The positions of the '#' of the hashtags of s *)
HashtagsAt(s) ==
    {i \in DOMAIN s : s[i] = Hash /\ i < Len(s) /\ IsWordChar(s[i + 1])}

(* The k-th smallest number of the set S *)
Nth(S, k) == CHOOSE x \in S : Cardinality({y \in S : y < x}) = k - 1

(* The characters of s from position a to e are word characters with none  *)
(* next to them on either side                                              *)
WholeWord(s, a, e) ==
    /\ a <= e
    /\ e <= Len(s)
    /\ \A k \in a..e : IsWordChar(s[k])
    /\ a > 1 => ~IsWordChar(s[a - 1])
    /\ e < Len(s) => ~IsWordChar(s[e + 1])

(* tok is '#' followed by one or more word characters *)
HashtagToken(tok) ==
    /\ Len(tok) >= 2
    /\ tok[1] = Hash
    /\ \A k \in 2..Len(tok) : IsWordChar(tok[k])

(* tok is made of the letters a-z only, has length >= 4 and is no stopword *)
PlainToken(tok) ==
    /\ Len(tok) >= MinLength
    /\ \A k \in DOMAIN tok : tok[k] \in Lowercase
    /\ tok \notin stopwords

(* The positions of s where a whole word starts that is a plain token *)
SurvivorsAt(s) ==
    {a \in DOMAIN s :
        \E e \in a..Len(s) : WholeWord(s, a, e) /\ PlainToken(SubSeq(s, a, e))}

(* C13: for any input text, clean_text returns the hashtags in the order   *)
(* found followed by the surviving words in the order found; every         *)
(* non-hashtag token has length >= 4, is lowercase alphabetic and is not a *)
(* stopword, hashtag tokens ('#' and one or more word characters) are kept *)
(* whatever their length or stopword membership; an empty or missing text  *)
(* yields the empty sequence.  The hashtags are those of the lowercased    *)
(* text, the words those of the lowercased text without its spans: the     *)
(* k-th token is the hashtag at the k-th '#' that a word character         *)
(* follows, and after the h hashtags the k-th token is the k-th whole word *)
(* that is a plain token.                                                   *)
C13_TokensWellFormed ==
    tpc = "return" =>
        IF text = None \/ text = << >> THEN cleaned = << >>
        ELSE LET low == lower(text)
                 st  == sub(low)
                 H   == HashtagsAt(low)
                 P   == SurvivorsAt(st)
                 h   == Cardinality(H)
             IN  /\ Len(cleaned) = h + Cardinality(P)
                 /\ \A k \in 1..h :
                       /\ HashtagToken(cleaned[k])
                       /\ WholeWord(low, Nth(H, k) + 1,
                                    Nth(H, k) + Len(cleaned[k]) - 1)
                       /\ cleaned[k] =
                             SubSeq(low, Nth(H, k), Nth(H, k) + Len(cleaned[k]) - 1)
                 /\ \A k \in 1..Cardinality(P) :
                       /\ PlainToken(cleaned[h + k])
                       /\ WholeWord(st, Nth(P, k), Nth(P, k) + Len(cleaned[h + k]) - 1)
                       /\ cleaned[h + k] =
                             SubSeq(st, Nth(P, k), Nth(P, k) + Len(cleaned[h + k]) - 1)

(* A stopword hashtag is kept, the stopword itself is dropped, and a       *)
(* four-letter word survives.                                               *)
C13_Witness ==
    /\ tpc = "return"
    /\ text = codes("#this abcd")
    /\ cleaned = <<codes("#this"), codes("abcd")>>

(* ---- clean_text: a hashtag and the plain word in it ---- *)

BodyEnd(s, i) == RunEnd(s, i + 1, WordChars, TRUE)

Body(s, i) == SubSeq(s, i + 1, BodyEnd(s, i))

(* The body is made of the letters a-z only, has length >= 4 and is no     *)
(* stopword                                                                 *)
Qualifies(s, i) == PlainToken(Body(s, i))

(* No character of the hashtag at i..j lies in a stripped span; kp are the *)
(* positions left in place.                                                 *)
Untouched(kp, i, j) == \A p \in i..j : p \in Range(kp)

(* Every character of the hashtag at i..j lies in a stripped span *)
Inside(kp, i, j) == \A p \in i..j : p \notin Range(kp)

(* Where position p of the text is in the stripped text *)
StrippedIndex(kp, p) == CHOOSE a \in DOMAIN kp : kp[a] = p

(* In the stripped text st no word character comes right after the body    *)
(* that ends at position j of the text                                      *)
BodyEndsWord(st, kp, j) ==
    LET a == StrippedIndex(kp, j)
    IN  a = Len(st) \/ ~IsWordChar(st[a + 1])

(* How many tokens returned are the hashtag '#' + w *)
HashCount(w) ==
    Cardinality({k \in DOMAIN cleaned : cleaned[k] = <<Hash>> \o w})

(* How many tokens returned are the plain word w *)
PlainCount(w) == Cardinality({k \in DOMAIN cleaned : cleaned[k] = w})

(* The positions of s where w stands as a whole word *)
Occurrences(s, w) ==
    {a \in DOMAIN s :
        /\ WholeWord(s, a, a + Len(w) - 1)
        /\ SubSeq(s, a, a + Len(w) - 1) = w}

(* C19 as stated: a hashtag '#w' whose body is purely alphabetic, of       *)
(* length >= 4, not a stopword and not inside a stripped span yields both  *)
(* the token '#w' and the plain word 'w'; one inside a stripped span       *)
(* yields its hashtag token and no plain word: the plain words 'w' are as  *)
(* many as the text without its spans has whole words w.                    *)
C19_AsStated ==
    tpc = "return" =>
        LET low == lower(text)
            kp  == kept_positions(low)
            st  == sub(low)
        IN  \A i \in HashtagsAt(low) :
                Qualifies(low, i) =>
                    /\ Untouched(kp, i, BodyEnd(low, i)) =>
                          /\ HashCount(Body(low, i)) >= 1
                          /\ PlainCount(Body(low, i)) >= 1
                    /\ Inside(kp, i, BodyEnd(low, i)) =>
                          /\ HashCount(Body(low, i)) >= 1
                          /\ PlainCount(Body(low, i)) =
                                Cardinality(Occurrences(st, Body(low, i)))

(* C19: hashtags are not removed before the words are extracted.  For a   *)
(* hashtag '#w' of the lowercased text whose body w is made of the letters *)
(* a-z only, has length >= 4 and is no stopword: the tokens '#w' returned  *)
(* are as many as the hashtags '#w' of the text, in a stripped span or     *)
(* not; the plain words 'w' returned are as many as the text without its   *)
(* spans has whole words w; and when no character of the hashtag is in a   *)
(* stripped span and, once the spans are removed, no word character comes  *)
(* right after its body, the body is one of these whole words, so that the *)
(* hashtag yields both '#w' and 'w'.  A hashtag inside a stripped span     *)
(* yields '#w' and leaves nothing in the text without its spans.            *)
C19_HashtagAlsoPlainWord ==
    tpc = "return" =>
        LET low == lower(text)
            kp  == kept_positions(low)
            st  == sub(low)
            H   == HashtagsAt(low)
        IN  \A i \in H :
                Qualifies(low, i) =>
                    /\ HashCount(Body(low, i)) =
                          Cardinality({n \in H : Body(low, n) = Body(low, i)})
                    /\ PlainCount(Body(low, i)) =
                          Cardinality(Occurrences(st, Body(low, i)))
                    /\ (/\ Untouched(kp, i, BodyEnd(low, i))
                        /\ BodyEndsWord(st, kp, BodyEnd(low, i))) =>
                          /\ StrippedIndex(kp, i + 1)
                                \in Occurrences(st, Body(low, i))
                          /\ HashCount(Body(low, i)) >= 1
                          /\ PlainCount(Body(low, i)) >= 1
                    /\ Inside(kp, i, BodyEnd(low, i)) =>
                          /\ HashCount(Body(low, i)) >= 1
                          /\ PlainCount(Body(low, i)) =
                                Cardinality({a \in Occurrences(st, Body(low, i)) :
                                                kp[a] \notin i..BodyEnd(low, i)})

(* '#abcd' outside every span gives two tokens, '#abcd' inside the         *)
(* parentheses gives one.                                                   *)
C19_Witness ==
    /\ tpc = "return"
    /\ text = codes("#abcd(#abcd)")
    /\ cleaned = <<codes("#abcd"), codes("#abcd"), codes("abcd")>>

(* ---- The dashboard's queries ---- *)

RECURSIVE SumOver(_, _)
SumOver(rows, at) ==
    IF at = {} THEN 0
    ELSE LET i == CHOOSE j \in at : TRUE
         IN  rows[i].count + SumOver(rows, at \ {i})

(* The rows of (word, source) that are less than secs seconds old *)
InWindow(rows, clock, secs, word, source) ==
    {i \in DOMAIN rows : /\ rows[i].word = word
                         /\ rows[i].source = source
                         /\ clock - rows[i].timestamp < secs}

WindowSum(rows, clock, secs, word, source) ==
    SumOver(rows, InWindow(rows, clock, secs, word, source))

(* The window of a timeframe in seconds: 0.17, 1, 6 and 24 hours *)
WindowSeconds(tf) ==
    CASE tf = "10min"  -> 612
      [] tf = "1hour"  -> 3600
      [] tf = "6hour"  -> 21600
      [] tf = "24hour" -> 86400

(* res is a ranking of the (word, source) groups of rows by their sum of   *)
(* counts over the window, cut to the given number of rows                  *)
TopOfWindow(res, rows, clock, secs, most) ==
    /\ Len(res) <= most
    /\ \A k \in 1..(Len(res) - 1) : res[k][2] >= res[k + 1][2]
    /\ \A k \in DOMAIN res :
          /\ InWindow(rows, clock, secs, res[k][1], res[k][3]) # {}
          /\ res[k][2] = WindowSum(rows, clock, secs, res[k][1], res[k][3])
          /\ \A j \in DOMAIN res :
                (j # k) => <<res[j][1], res[j][3]>> # <<res[k][1], res[k][3]>>
    /\ \A i \in DOMAIN rows :
          (clock - rows[i].timestamp < secs) =>
              \/ \E k \in DOMAIN res :
                    res[k][1] = rows[i].word /\ res[k][3] = rows[i].source
              \/ /\ Len(res) = most
                 /\ \A k \in DOMAIN res :
                       WindowSum(rows, clock, secs, rows[i].word, rows[i].source)
                           <= res[k][2]

(* C14: get_recent_trends(hours) returns at most 20 rows, in non-increasing *)
(* order of aggregated count; each row's count is the sum of the counts of *)
(* the persisted trend records of that (token, source) whose timestamp     *)
(* lies inside the window, and no group left out has a larger sum than one *)
(* included; 10min, 1hour, 6hour and 24hour mean windows of 0.17, 1, 6 and *)
(* 24 hours.                                                                *)
C14_RecentTrendsTop20 ==
    [][(rpc = "idle" /\ rpc' = "trends"
            /\ timeframe' \in {"10min", "1hour", "6hour", "24hour"})
        => TopOfWindow(result', db_trends, now, WindowSeconds(timeframe'), 20)]_vars

(* A six-hour request answered with 20 of more than 20 groups, the first   *)
(* of them the sum of two cycles' records of token 1.                       *)
C14_Witness ==
    /\ rpc = "trends"
    /\ timeframe = "6hour"
    /\ Len(result) = 20
    /\ Cardinality({db_trends[i].word : i \in DOMAIN db_trends}) > 20
    /\ result[1] = <<1, 4, "reddit">>
    /\ Cardinality({i \in DOMAIN db_trends : db_trends[i].word = 1}) = 2
    /\ pc = "save"

(* ---- One cycle's rows and who can see them ---- *)

(* The rows in the tables that do not belong to the cycle being saved *)
EarlierRows(rows) == SelectSeq(rows, LAMBDA r : r.timestamp # cycle)

(* The rows in the tables that belong to the cycle being saved *)
CycleRows(rows) == SelectSeq(rows, LAMBDA r : r.timestamp = cycle)

(* What get_stats answers when it sees the given tables *)
StatsOf(trend_rows, alert_rows) ==
    [total_trends |-> count_rows(trend_rows, now),
     unique_words |-> count_distinct_words(trend_rows, now),
     alerts_today |-> count_rows(alert_rows, now)]

(* The tables without and with the whole cycle *)
WithoutCycle == <<EarlierRows(db_trends), EarlierRows(db_alerts)>>

WithCycle ==
    <<EarlierRows(db_trends) \o TrendRows(words, cycle),
      EarlierRows(db_alerts) \o AlertRows(trends, cycle)>>

(* C17: persistence of one cycle is atomic towards the store and its       *)
(* readers: the trend records and the alert rows of a cycle are committed  *)
(* together, a save_data call that fails before the commit leaves no row   *)
(* of the cycle in the database, and what get_recent_trends and get_stats  *)
(* answer is what they would answer on the database without the cycle or   *)
(* on the database with all of it: never some but not all rows of a        *)
(* cycle, nor its trend records without its alerts.                         *)
C17_ReadersSeeWholeCycles ==
    /\ \/ CycleRows(db_trends) = << >> /\ CycleRows(db_alerts) = << >>
       \/ /\ CycleRows(db_trends) = TrendRows(words, cycle)
          /\ CycleRows(db_alerts) = AlertRows(trends, cycle)
    /\ pc = "sleep60" => CycleRows(db_trends) = << >> /\ CycleRows(db_alerts) = << >>
    /\ rpc = "trends" =>
          \E order \in TieOrders, tables \in {WithoutCycle, WithCycle} :
              result = get_recent_trends(tables[1], now,
                                         hours_map_get(timeframe), order)
    /\ rpc = "stats3" =>
          \E tables \in {WithoutCycle, WithCycle} :
              stats = StatsOf(tables[1], tables[2])

====
